---------------------------- MODULE Spec2Model ----------------------------
(***************************************************************************)
(* A model of the receipt field-extraction pipeline of                     *)
(* app/receipt_processor.py (class ReceiptProcessor) and of its caller     *)
(* app/main.py.                                                            *)
(*                                                                         *)
(* Texts are TLA+ strings; a character is a string of length 1.  Regular   *)
(* expressions of the source are translated to operators that compute the  *)
(* match Python's backtracking matcher returns (leftmost start, then the   *)
(* first alternative in priority order).  Amounts are exact decimals       *)
(* [neg, ip, fp] (sign, integer digits, fraction digits); the binary       *)
(* rounding of IEEE doubles is not modelled.  int() has the limit on the   *)
(* digits of its argument that CPython sets by default since 3.11.         *)
(***************************************************************************)
EXTENDS Integers, Sequences, FiniteSets, TLC

VARIABLES
    pc,             \* position of the run: the next step of process_receipt, or of a direct call
    ocr_result,     \* what the OCR engine returns for the image: a sequence of [text, y]
    text_results,   \* extract_text: the detected tokens
    full_text,      \* extract_text: the joined token texts
    receipt_type,   \* identify_receipt_type
    merchant_name,  \* extract_merchant_name
    date,           \* extract_date_time
    time,           \* extract_date_time
    items,          \* extract_items
    totals,         \* extract_totals
    total,          \* calculate_total
    payment_method, \* extract_payment_method
    result,         \* what process_receipt returns
    arg,            \* argument of a direct call of one method
    ret,            \* value returned by a direct call
    files,          \* the service's working directory: what each path holds
    requests        \* the service's requests in flight: upload, position, locals

vars == <<pc, ocr_result, text_results, full_text, receipt_type, merchant_name,
          date, time, items, totals, total, payment_method, result, arg, ret,
          files, requests>>

\* What the web service of main.py adds to one run of the processor.
service == <<files, requests>>

\* Python's None, and the value of a variable no step has assigned yet.
\* Records, so that they compare (unequal) with amounts and with results.
None == [none |-> TRUE]
Unset == [unset |-> TRUE]

-----------------------------------------------------------------------------
(* Characters and strings *)

Digits == {"0", "1", "2", "3", "4", "5", "6", "7", "8", "9"}
UpperCase == "ABCDEFGHIJKLMNOPQRSTUVWXYZ"
LowerCase == "abcdefghijklmnopqrstuvwxyz"
DigitChars == "0123456789"

\* s[i-1] in Python: the character at position i (1-based), "" outside the string.
Ch(s, i) == IF i >= 1 /\ i <= Len(s) THEN SubSeq(s, i, i) ELSE ""

\* s[i-1:] and s[:i-1]
From(s, i) == SubSeq(s, i, Len(s))
Upto(s, i) == SubSeq(s, 1, i)

IsDigit(c) == c \in Digits
IsSpace(c) == c \in {" ", "\t", "\n", "\r", "\f"}
UpperChars == { SubSeq(UpperCase, i, i) : i \in 1..26 }
LowerChars == { SubSeq(LowerCase, i, i) : i \in 1..26 }
IsUpper(c) == c \in UpperChars
IsLower(c) == c \in LowerChars
IsAlpha(c) == IsUpper(c) \/ IsLower(c)

\* The lower-case letter of each upper-case letter.
LowerOf ==
    [c \in UpperChars |->
        LET i == CHOOSE k \in 1..26 : SubSeq(UpperCase, k, k) = c
        IN  SubSeq(LowerCase, i, i)]

LowerChar(c) == IF IsUpper(c) THEN LowerOf[c] ELSE c

\* The least position of lo..hi where P holds, hi + 1 when there is none.
First(lo, hi, P(_)) ==
    IF \E p \in lo..hi : P(p)
    THEN CHOOSE p \in lo..hi : P(p) /\ \A q \in lo..(p - 1) : ~P(q)
    ELSE hi + 1

\* The greatest position of lo..hi where P holds, lo - 1 when there is none.
Last(lo, hi, P(_)) ==
    IF \E p \in lo..hi : P(p)
    THEN CHOOSE p \in lo..hi : P(p) /\ \A q \in (p + 1)..hi : ~P(q)
    ELSE lo - 1

RECURSIVE lower(_)
\* str.lower(), one half of the string after the other
lower(s) ==
    IF Len(s) <= 1 THEN LowerChar(s)
    ELSE lower(Upto(s, Len(s) \div 2)) \o lower(From(s, Len(s) \div 2 + 1))

\* s.startswith(sub, i-1)
StartsAt(s, i, sub) == i >= 1 /\ i + Len(sub) - 1 <= Len(s) /\ SubSeq(s, i, i + Len(sub) - 1) = sub

\* sub in s
Contains(s, sub) == \E i \in 1..(Len(s) + 1) : StartsAt(s, i, sub)

\* s.endswith(sub)
EndsWith(s, sub) == Len(sub) <= Len(s) /\ SubSeq(s, Len(s) - Len(sub) + 1, Len(s)) = sub

\* any(keyword in s for keyword in keywords)
ContainsAny(s, keywords) == \E k \in 1..Len(keywords) : Contains(s, keywords[k])

\* The position after the whitespace run that starts at i (greedy \s*).
SkipSpaces(s, i) == IF i > Len(s) THEN i ELSE First(i, Len(s), LAMBDA p : ~IsSpace(Ch(s, p)))

\* The position after the digit run that starts at i (greedy \d*).
SkipDigits(s, i) == IF i > Len(s) THEN i ELSE First(i, Len(s), LAMBDA p : ~IsDigit(Ch(s, p)))

lstrip(s) == From(s, SkipSpaces(s, 1))

rstrip(s) == Upto(s, Last(1, Len(s), LAMBDA p : ~IsSpace(Ch(s, p))))

\* str.strip()
strip(s) == lstrip(rstrip(s))

RECURSIVE split_lines(_)
\* s.split('\n')
split_lines(s) ==
    IF ~Contains(s, "\n") THEN <<s>>
    ELSE LET i == CHOOSE k \in 1..Len(s) : Ch(s, k) = "\n" /\ \A j \in 1..(k - 1) : Ch(s, j) # "\n"
         IN  <<Upto(s, i - 1)>> \o split_lines(From(s, i + 1))

RECURSIVE join_lines(_)
\* '\n'.join(texts)
join_lines(texts) ==
    IF Len(texts) = 0 THEN ""
    ELSE IF Len(texts) = 1 THEN texts[1]
    ELSE texts[1] \o "\n" \o join_lines(Tail(texts))

RECURSIVE split_words(_)
\* s.split(): the maximal runs of non-whitespace characters
split_words(s) ==
    LET t == lstrip(s)
    IN  IF t = "" THEN <<>>
        ELSE LET e == CHOOSE k \in 1..(Len(t) + 1) :
                        /\ (k = Len(t) + 1 \/ IsSpace(Ch(t, k)))
                        /\ \A j \in 1..(k - 1) : ~IsSpace(Ch(t, j))
             IN  <<Upto(t, e - 1)>> \o split_words(From(t, e))

RECURSIVE KeepChars(_, _)
\* re.sub(r'[^...]', '', s): s without the characters that are not in keep
KeepChars(s, keep) ==
    IF Len(s) <= 1 THEN (IF s \in keep THEN s ELSE "")
    ELSE KeepChars(Upto(s, Len(s) \div 2), keep) \o KeepChars(From(s, Len(s) \div 2 + 1), keep)

RECURSIVE ReplaceChar(_, _, _)
\* s.replace(c, by) for a single character c
ReplaceChar(s, c, by) ==
    IF Len(s) <= 1 THEN (IF s = c THEN by ELSE s)
    ELSE ReplaceChar(Upto(s, Len(s) \div 2), c, by) \o ReplaceChar(From(s, Len(s) \div 2 + 1), c, by)

DigitVal(c) == (CHOOSE k \in 1..10 : SubSeq(DigitChars, k, k) = c) - 1
DigitChar(n) == SubSeq(DigitChars, n + 1, n + 1)

\* d without its leading zeros, the last digit apart
StripLeadingZeros(d) == IF d = "" THEN "" ELSE From(d, First(1, Len(d) - 1, LAMBDA p : Ch(d, p) # "0"))

\* d without its trailing zeros
StripTrailingZeros(d) == Upto(d, Last(1, Len(d), LAMBDA p : Ch(d, p) # "0"))

RECURSIVE Zeros(_)
\* '0' * n
Zeros(n) ==
    IF n <= 0 THEN ""
    ELSE IF n = 1 THEN "0"
    ELSE Zeros(n \div 2) \o Zeros(n - n \div 2)

RECURSIVE DigitsValue(_)
\* The number that the digits of s write.
DigitsValue(s) ==
    IF s = "" THEN 0 ELSE 10 * DigitsValue(Upto(s, Len(s) - 1)) + DigitVal(Ch(s, Len(s)))

\* sys.int_info.default_max_str_digits: int(s) raises ValueError when s has
\* more digit characters than this, leading zeros included.
int_max_str_digits == 4300

\* Whether int(s) raises ValueError for a non-empty string of digits.
IntExceedsLimit(s) == Len(s) > int_max_str_digits

\* int(s) for a non-empty string of digits that int() accepts
ToInt(s) == DigitsValue(StripLeadingZeros(s))

-----------------------------------------------------------------------------
(* Amounts: the float values of the source as exact decimals.               *)
(* [neg, ip, fp] is (-1)^neg * ip.fp ; ip has no leading zero except "0",   *)
(* fp has no trailing zero, and zero is never negative.                      *)

Num(neg, ip, fp) ==
    LET i == StripLeadingZeros(IF ip = "" THEN "0" ELSE ip)
        f == StripTrailingZeros(fp)
    IN  [neg |-> neg /\ ~(i = "0" /\ f = ""), ip |-> i, fp |-> f]

Zero == Num(FALSE, "0", "")
IsNumber(v) == DOMAIN v = {"neg", "ip", "fp"}
IsZero(v) == v.ip = "0" /\ v.fp = ""

\* v >= 0, 0 < v, v < 1000 as the source compares floats
NonNegative(v) == ~v.neg
Positive(v) == ~v.neg /\ ~IsZero(v)
\* A fault: the threshold of the correction taken as 100.
BelowHundred(v) == v.neg \/ Len(v.ip) <= 2

BelowThousand(v) == v.neg \/ Len(v.ip) <= 3

\* v * 1000: the decimal point moves three places
Times1000(v) ==
    LET f == v.fp \o Zeros(3 - Len(v.fp))
    IN  Num(v.neg, v.ip \o Upto(f, 3), From(f, 4))

\* The two magnitudes as digit strings of one length over one scale.
Scale(a, b) == IF Len(a.fp) >= Len(b.fp) THEN Len(a.fp) ELSE Len(b.fp)
Width(a, b) == (IF Len(a.ip) >= Len(b.ip) THEN Len(a.ip) ELSE Len(b.ip)) + Scale(a, b)
Aligned(a, b) ==
    LET x == a.ip \o a.fp \o Zeros(Scale(a, b) - Len(a.fp))
    IN  Zeros(Width(a, b) - Len(x)) \o x

RECURSIVE AddDigits(_, _, _)
\* x + y + carry for digit strings of one length
AddDigits(x, y, carry) ==
    IF x = "" THEN (IF carry = 1 THEN "1" ELSE "")
    ELSE LET n == Len(x)
             s == DigitVal(Ch(x, n)) + DigitVal(Ch(y, n)) + carry
         IN  AddDigits(Upto(x, n - 1), Upto(y, n - 1), s \div 10) \o DigitChar(s % 10)

RECURSIVE SubDigits(_, _, _)
\* x - y - borrow for digit strings of one length, x >= y
SubDigits(x, y, borrow) ==
    IF x = "" THEN ""
    ELSE LET n == Len(x)
             s == DigitVal(Ch(x, n)) - DigitVal(Ch(y, n)) - borrow
         IN  SubDigits(Upto(x, n - 1), Upto(y, n - 1), IF s < 0 THEN 1 ELSE 0)
                 \o DigitChar(IF s < 0 THEN s + 10 ELSE s)

RECURSIVE DigitsLess(_, _)
\* x < y for digit strings of one length
DigitsLess(x, y) ==
    IF x = "" THEN FALSE
    ELSE IF Ch(x, 1) # Ch(y, 1) THEN DigitVal(Ch(x, 1)) < DigitVal(Ch(y, 1))
    ELSE DigitsLess(From(x, 2), From(y, 2))

FromDigits(neg, d, scale) == Num(neg, Upto(d, Len(d) - scale), From(d, Len(d) - scale + 1))

\* x + y for aligned magnitudes x, y of the signs of a and b, over the scale sc
add_aligned(a, b, x, y, sc) ==
    FromDigits(IF a.neg = b.neg \/ ~DigitsLess(x, y) THEN a.neg ELSE b.neg,
               IF a.neg = b.neg THEN AddDigits(x, y, 0)
               ELSE IF DigitsLess(x, y) THEN SubDigits(y, x, 0)
               ELSE SubDigits(x, y, 0),
               sc)

\* a + b
Add(a, b) == add_aligned(a, b, Aligned(a, b), Aligned(b, a), Scale(a, b))

RECURSIVE IntToStr(_)
\* str(n) for an integer n >= 0
IntToStr(n) == IF n < 10 THEN DigitChar(n) ELSE IntToStr(n \div 10) \o DigitChar(n % 10)

\* float(n) for an integer n >= 0
Amount(n) == Num(FALSE, IntToStr(n), "")

ValueError == [raised |-> "ValueError"]

\* The float of the digits of body: e is the end of the integer digits, f the
\* end of the fraction digits.
float_parts(s, body, e, f) ==
    IF f = Len(body) + 1 /\ f - 1 > (IF Ch(body, e) = "." THEN 1 ELSE 0)
    THEN Num(Ch(s, 1) = "-", Upto(body, e - 1), SubSeq(body, e + 1, f - 1))
    ELSE ValueError

float_digits(s, body, e) ==
    float_parts(s, body, e, IF Ch(body, e) = "." THEN SkipDigits(body, e + 1) ELSE e)

\* float(s), body being s without its sign
float_of(s, body) == float_digits(s, body, SkipDigits(body, 1))

\* float(s) for a string over sign, digits and the point: the other forms
\* Python accepts (exponent, inf, nan, underscores) need a character that
\* fix_price_format has removed.  ValueError when s is not a number.
PyFloat(s) == float_of(s, IF Ch(s, 1) \in {"-", "+"} THEN From(s, 2) ELSE s)

\* str(v) of a float: repr switches to exponent notation from 1e16 on
\* (and below 1e-4, which no amount of the model reaches).
PyStr(v) ==
    LET sign == IF v.neg THEN "-" ELSE ""
        all == v.ip \o v.fp
        mant == StripTrailingZeros(From(all, 2))
        exp == Len(v.ip) - 1
    IN  IF Len(v.ip) > 16
        THEN sign \o Ch(all, 1) \o (IF mant = "" THEN "" ELSE "." \o mant) \o "e+" \o IntToStr(exp)
        ELSE sign \o v.ip \o "." \o (IF v.fp = "" THEN "0" ELSE v.fp)

-----------------------------------------------------------------------------
(* self.price_pattern and fix_price_format *)

\* \d{1,3}(?:[.,]\d{3})*(?:[.,]\d{0,3}) tried at position q: the position
\* after the match, 0 when there is none.  The head is the digit run at q
\* (a run longer than 3 leaves no separator after any head), the groups
\* are taken greedily and one is given back when no separator follows them.
IsSep(c) == c \in {".", ","}
IsGroup(s, i) == IsSep(Ch(s, i)) /\ IsDigit(Ch(s, i + 1)) /\ IsDigit(Ch(s, i + 2)) /\ IsDigit(Ch(s, i + 3))

RECURSIVE SkipGroups(_, _)
SkipGroups(s, i) == IF IsGroup(s, i) THEN SkipGroups(s, i + 4) ELSE i

\* \d{0,3}, greedy
SkipUpTo3Digits(s, i) ==
    IF ~IsDigit(Ch(s, i)) THEN i
    ELSE IF ~IsDigit(Ch(s, i + 1)) THEN i + 1
    ELSE IF ~IsDigit(Ch(s, i + 2)) THEN i + 2
    ELSE i + 3

\* The end of the number whose head is s[q..h-1] and whose groups end before g.
number_tail(s, h, g) ==
    IF IsSep(Ch(s, g)) THEN SkipUpTo3Digits(s, g + 1)
    ELSE IF g > h THEN g
    ELSE 0

number_head(s, q, h) ==
    IF h = q \/ h - q > 3 THEN 0 ELSE number_tail(s, h, SkipGroups(s, h))

NumberEnd(s, q) == number_head(s, q, SkipDigits(s, q))

NoMatch == [start |-> 0, num |-> 0, end |-> 0]
Matched(m) == m.start # 0
Group0(s, m) == SubSeq(s, m.start, m.end - 1)
Group1(s, m) == SubSeq(s, m.num, m.end - 1)

\* The match that starts at p, whose number starts at q and ends before e (no match when e = 0).
MatchAt(p, q, e) == IF e = 0 THEN NoMatch ELSE [start |-> p, num |-> q, end |-> e]
NumberAt(s, p, q) == MatchAt(p, q, NumberEnd(s, q))

\* The first of two attempts that matches.
OrElse(first, second) == IF Matched(first) THEN first ELSE second

\* Whether "Rp" is written at position p (in any case when caseless, which is re.IGNORECASE).
IsRp(s, p, caseless) ==
    /\ p + 1 <= Len(s)
    /\ IF caseless THEN lower(SubSeq(s, p, p + 1)) = "rp" ELSE SubSeq(s, p, p + 1) = "Rp"

\* (?:Rp\.?|Rp)?\s*(number) tried at position p.  The prefix alternatives
\* are tried in the pattern's order: "Rp." , "Rp", none; \s* is greedy and
\* the number has to start where the whitespace run ends.
amount_at(s, p, rp) ==
    OrElse(IF rp /\ Ch(s, p + 2) = "." THEN NumberAt(s, p, SkipSpaces(s, p + 3)) ELSE NoMatch,
           OrElse(IF rp THEN NumberAt(s, p, SkipSpaces(s, p + 2)) ELSE NoMatch,
                  NumberAt(s, p, SkipSpaces(s, p))))

AmountAt(s, p, caseless) == amount_at(s, p, IsRp(s, p, caseless))

\* The match at the leftmost position from p on.
AmountFrom(s, p) ==
    AmountAt(s, First(p, Len(s), LAMBDA q : Matched(AmountAt(s, q, FALSE))), FALSE)

\* re.search(self.price_pattern, s)
price_pattern(s) == AmountFrom(s, 1)

\* The comma of a string without a dot: the decimal point when the string
\* ends in ",00" or ",0", else a thousands separator.
comma_only(cleaned) ==
    IF EndsWith(cleaned, ",00") \/ EndsWith(cleaned, ",0")
    THEN ReplaceChar(cleaned, ",", ".")
    ELSE ReplaceChar(cleaned, ",", "")

\* price_str cleaned, with its separators read
separated(cleaned) ==
    IF Contains(cleaned, ",") /\ Contains(cleaned, ".")
    THEN ReplaceChar(ReplaceChar(cleaned, ".", ""), ",", ".")
    ELSE IF Contains(cleaned, ",") THEN comma_only(cleaned)
    ELSE cleaned

\* A fault: the ValueError of float() is not caught.
uncaught(price) ==
    IF price = ValueError THEN ValueError
    ELSE IF Positive(price) /\ BelowThousand(price) THEN Times1000(price)
    ELSE price

\* A fault: a price below 1000 is not multiplied.
uncorrected(price) == IF price = ValueError THEN Zero ELSE price

\* except ValueError: return 0.0, and the correction of a positive price below 1000
corrected(price) ==
    IF price = ValueError THEN Zero
    ELSE IF Positive(price) /\ BelowThousand(price) THEN Times1000(price)
    ELSE price

fix_price_format(price_str) ==
    corrected(PyFloat(separated(KeepChars(price_str, Digits \cup {".", ","}))))

-----------------------------------------------------------------------------
(* is_valid_item_name *)

\* self.non_item_keywords
non_item_keywords ==
    << "total", "subtotal", "sub total", "pajak", "tax", "service",
       "charge", "amount", "jumlah", "tunai", "cash", "card",
       "kartu", "debit", "credit", "kredit", "change", "kembalian",
       "kembali", "date", "time", "tanggal", "waktu", "receipt",
       "invoice", "customer", "pelanggan", "thank", "terima kasih", "sales",
       "queue", "antrian", "no.", "nomor", "table", "meja",
       "rcpt", "bill", "order", "cashier", "kasir", "pax",
       "guest", "phone", "telp", "address", "alamat", "jalan",
       "street", "kota", "city", "provinsi", "province", "kode pos",
       "postal code", "zip", "npwp", "tax id", "produk", "product",
       "item", "qty", "quantity", "harga", "price", "disc",
       "discount", "potongan", "ppn", "vat", "dpp", "pbj",
       "gedung", "building", "menara", "tower", "plaza", "mall",
       "kec", "kecamatan", "district", "kelurahan", "desa", "village",
       "rt", "rw", "blok", "block", "jl", "jln",
       "jalan", "street", "avenue", "lane", "road", "boulevard",
       "highway", "kabupaten", "regency", "kota", "city", "provinsi",
       "province", "indonesia", "jakarta", "bandung", "surabaya", "medan",
       "makassar", "semarang", "palembang", "tangerang", "depok", "bekasi",
       "batam", "pekanbaru", "bogor", "padang", "malang", "samarinda",
       "tasikmalaya", "pontianak", "banjarmasin", "balikpapan", "manado", "denpasar",
       "serang", "jambi", "bengkulu", "ambon", "palu", "mataram",
       "kupang", "jayapura", "ternate", "tanjung pinang", "pangkal pinang", "gorontalo",
       "mamuju", "kendari", "banda aceh", "tanjung selor", "manokwari", "sofifi",
       "mamuju", "nabire", "merauke", "sorong", "biak", "timika",
       "wamena", "fakfak", "serui", "tembagapura", "subtota1", "subtota2",
       "subtota3", "subtota4", "subtota5", "subtota6", "subtota7", "subtota8",
       "subtota9", "subtota0" >>

\* non_item_patterns: the patterns that are a literal after the anchor
non_item_prefixes ==
    << "rcpt", "receipt", "invoice", "bill", "order", "subtotal",
       "total", "pajak", "tax", "service", "charge", "amount",
       "jumlah", "tunai", "cash", "card", "kartu", "debit",
       "credit", "kredit", "change", "kembalian", "kembali", "date",
       "time", "tanggal", "waktu", "customer", "pelanggan", "thank",
       "sales", "queue", "antrian", "no.", "nomor", "table",
       "meja", "produk", "product", "qty", "quantity", "harga",
       "price", "disc", "discount", "potongan", "ppn", "vat",
       "dpp", "pbj", "kec.", "kel.", "jl.", "jln.",
       "rt.", "rw.", "blok", "gedung", "menara", "plaza",
       "mall", "edc", "bca", "scrp", "pb1rp", "sub" >>

\* r'^sub\s*total', r'^terima\s*kasih' and r'^subtota\d'
non_item_spaced(text_lower) ==
    \/ StartsAt(text_lower, 1, "sub") /\ StartsAt(text_lower, SkipSpaces(text_lower, 4), "total")
    \/ StartsAt(text_lower, 1, "terima") /\ StartsAt(text_lower, SkipSpaces(text_lower, 7), "kasih")
    \/ StartsAt(text_lower, 1, "subtota") /\ IsDigit(Ch(text_lower, 8))

\* len(text) < 2
too_short(text) == Len(text) < 2

\* re.match(r'^\d+(\s*\d+)*$', text); $ also matches before one final newline
only_numbers(text) ==
    LET t == IF EndsWith(text, "\n") THEN Upto(text, Len(text) - 1) ELSE text
    IN  /\ IsDigit(Ch(t, 1)) /\ IsDigit(Ch(t, Len(t)))
        /\ \A i \in 1..Len(t) : IsDigit(Ch(t, i)) \/ IsSpace(Ch(t, i))

\* re.search(r'Rp\.?\s*\d+', text)
has_currency_number(text) ==
    \E p \in 1..Len(text) :
        /\ StartsAt(text, p, "Rp")
        /\ \/ Ch(text, p + 2) = "." /\ IsDigit(Ch(text, SkipSpaces(text, p + 3)))
           \/ IsDigit(Ch(text, SkipSpaces(text, p + 2)))

\* any(re.search(pattern, text_lower) for pattern in non_item_patterns)
has_non_item_prefix(text_lower) ==
    \/ \E k \in 1..Len(non_item_prefixes) : StartsAt(text_lower, 1, non_item_prefixes[k])
    \/ non_item_spaced(text_lower)

\* any(keyword in text_lower for keyword in self.non_item_keywords)
has_non_item_keyword(text_lower) == ContainsAny(text_lower, non_item_keywords)

IsDateSep(c) == c \in {"-", "/", "."}

\* \d{1,2}[-/.]\d{1,2}[-/.]\d{2,4} tried at position p with a and b digits
\* in the first two fields: the position after the match, 0 when none.
NumericDateEnd(s, p, a, b) ==
    LET q == p + a + 1
        r == q + b + 1
    IN  IF /\ \A i \in p..(p + a - 1) : IsDigit(Ch(s, i))
           /\ IsDateSep(Ch(s, p + a))
           /\ \A i \in q..(q + b - 1) : IsDigit(Ch(s, i))
           /\ IsDateSep(Ch(s, q + b))
           /\ IsDigit(Ch(s, r)) /\ IsDigit(Ch(s, r + 1))
        THEN (IF ~IsDigit(Ch(s, r + 2)) THEN r + 2
              ELSE IF ~IsDigit(Ch(s, r + 3)) THEN r + 3 ELSE r + 4)
        ELSE 0

\* re.search(r'\d{1,2}[-/.]\d{1,2}[-/.]\d{2,4}', text)
has_date(text) ==
    \E p \in 1..Len(text) : \E a \in {1, 2} : \E b \in {1, 2} : NumericDateEnd(text, p, a, b) # 0

\* \d{1,2}:\d{2}(?::\d{2})? tried at position p with a digits in the hour:
\* the position after the match, 0 when none.
TimeEnd(s, p, a) ==
    LET q == p + a + 1
    IN  IF /\ \A i \in p..(p + a - 1) : IsDigit(Ch(s, i))
           /\ Ch(s, p + a) = ":"
           /\ IsDigit(Ch(s, q)) /\ IsDigit(Ch(s, q + 1))
        THEN (IF Ch(s, q + 2) = ":" /\ IsDigit(Ch(s, q + 3)) /\ IsDigit(Ch(s, q + 4))
              THEN q + 5 ELSE q + 2)
        ELSE 0

\* re.search(r'\d{1,2}:\d{2}(?::\d{2})?', text)
has_time(text) == \E p \in 1..Len(text) : \E a \in {1, 2} : TimeEnd(text, p, a) # 0

\* A fault: the postal code taken as six digits.
has_six_digits(text) == \E p \in 1..Len(text) : \A i \in p..(p + 5) : IsDigit(Ch(text, i))

\* re.search(r'\d{5}', text)
has_postal_code(text) == \E p \in 1..Len(text) : \A i \in p..(p + 4) : IsDigit(Ch(text, i))

\* words[0].lower() == "less", or len(words) == 2 and words[1].lower() == "less"
less_words(words) ==
    \/ Len(words) > 0 /\ lower(words[1]) = "less"
    \/ Len(words) = 2 /\ lower(words[2]) = "less"

is_less_modifier(text) == less_words(split_words(strip(text)))

is_valid_item_name(text) ==
    LET text_lower == lower(text)
    IN  IF too_short(text) THEN FALSE
        ELSE IF only_numbers(text) THEN FALSE
        ELSE IF has_currency_number(text) THEN FALSE
        ELSE IF has_non_item_prefix(text_lower) THEN FALSE
        ELSE IF has_non_item_keyword(text_lower) THEN FALSE
        ELSE IF has_date(text) THEN FALSE
        ELSE IF has_time(text) THEN FALSE
        ELSE IF has_postal_code(text) THEN FALSE
        ELSE IF is_less_modifier(text) THEN FALSE
        ELSE TRUE

-----------------------------------------------------------------------------
(* standardize_date_format, standardize_time_format, extract_date_time.     *)
(* datetime.strptime compiles a template to a regular expression, matches   *)
(* it at the start of the string without regard to case, and raises         *)
(* ValueError when the match fails, when text remains after it, or when the *)
(* fields are no date.                                                      *)

month_names ==
    << "january", "february", "march", "april", "may", "june", "july",
       "august", "september", "october", "november", "december" >>
month_abbrs ==
    << "jan", "feb", "mar", "apr", "may", "jun", "jul", "aug", "sep", "oct", "nov", "dec" >>

InRange(c, lo, hi) == IsDigit(c) /\ DigitVal(c) >= lo /\ DigitVal(c) <= hi

\* The end of the text a directive matches at position p, 0 when it does
\* not match.  The alternatives are in the order of the library's patterns:
\*   %d  3[0-1]|[1-2]\d|0[1-9]|[1-9]| [1-9]      %m, %I  1[0-2]|0[1-9]|[1-9]
\*   %Y  \d\d\d\d     %y  \d\d     %H  2[0-3]|[0-1]\d|\d
\*   %M  [0-5]\d|\d   %S  6[0-1]|[0-5]\d|\d      %p  am|pm
\*   %B, %b  the month names
DirectiveEnd(s, p, dir) ==
    LET c == Ch(s, p)
        n == Ch(s, p + 1)
        named(names) ==
            IF \E k \in 1..12 : StartsAt(lower(s), p, names[k])
            THEN p + Len(names[CHOOSE k \in 1..12 : StartsAt(lower(s), p, names[k])])
            ELSE 0
    IN  CASE dir = "d" ->
               IF c = "3" /\ InRange(n, 0, 1) THEN p + 2
               ELSE IF InRange(c, 1, 2) /\ IsDigit(n) THEN p + 2
               ELSE IF c = "0" /\ InRange(n, 1, 9) THEN p + 2
               ELSE IF InRange(c, 1, 9) THEN p + 1
               ELSE IF c = " " /\ InRange(n, 1, 9) THEN p + 2
               ELSE 0
          [] dir \in {"m", "I"} ->
               IF c = "1" /\ InRange(n, 0, 2) THEN p + 2
               ELSE IF c = "0" /\ InRange(n, 1, 9) THEN p + 2
               ELSE IF InRange(c, 1, 9) THEN p + 1
               ELSE 0
          [] dir = "Y" ->
               IF \A i \in p..(p + 3) : IsDigit(Ch(s, i)) THEN p + 4 ELSE 0
          [] dir = "y" ->
               IF IsDigit(c) /\ IsDigit(n) THEN p + 2 ELSE 0
          [] dir = "H" ->
               IF c = "2" /\ InRange(n, 0, 3) THEN p + 2
               ELSE IF InRange(c, 0, 1) /\ IsDigit(n) THEN p + 2
               ELSE IF IsDigit(c) THEN p + 1
               ELSE 0
          [] dir = "M" ->
               IF InRange(c, 0, 5) /\ IsDigit(n) THEN p + 2
               ELSE IF IsDigit(c) THEN p + 1
               ELSE 0
          [] dir = "S" ->
               IF c = "6" /\ InRange(n, 0, 1) THEN p + 2
               ELSE IF InRange(c, 0, 5) /\ IsDigit(n) THEN p + 2
               ELSE IF IsDigit(c) THEN p + 1
               ELSE 0
          [] dir = "p" ->
               IF p + 1 <= Len(s) /\ lower(SubSeq(s, p, p + 1)) \in {"am", "pm"} THEN p + 2 ELSE 0
          [] dir = "B" -> named(month_names)
          [] dir = "b" -> named(month_abbrs)
          [] dir = " " ->
               IF IsSpace(c) THEN SkipSpaces(s, p) ELSE 0
          [] OTHER ->
               IF c = dir THEN p + 1 ELSE 0

\* The value of the text a directive matched.
DirectiveValue(text, dir) ==
    CASE dir \in {"B", "b"} ->
           LET names == IF dir = "B" THEN month_names ELSE month_abbrs
           IN  CHOOSE k \in 1..12 : names[k] = lower(text)
      [] dir = "y" ->
           IF ToInt(text) <= 68 THEN 2000 + ToInt(text) ELSE 1900 + ToInt(text)
      [] dir = "p" -> IF lower(text) = "pm" THEN 1 ELSE 0
      [] OTHER -> ToInt(strip(text))

RECURSIVE MatchTemplate(_, _, _, _)

\* The match of a directive that ends before e, followed by the match of the rest.
match_rest(s, p, e, rest) == [ok |-> rest.ok, texts |-> <<SubSeq(s, p, e - 1)>> \o rest.texts]

match_directive(s, p, fmt, k, e) ==
    IF e = 0 THEN [ok |-> FALSE, texts |-> <<>>]
    ELSE match_rest(s, p, e, MatchTemplate(s, e, fmt, k + 1))

\* The template's directives from index k on, matched from position p:
\* whether they match up to the end of s, and the texts matched.
MatchTemplate(s, p, fmt, k) ==
    IF k > Len(fmt) THEN [ok |-> p = Len(s) + 1, texts |-> <<>>]
    ELSE match_directive(s, p, fmt, k, DirectiveEnd(s, p, fmt[k]))

\* The index of the directive of the template that is one of dirs, 0 when it has none.
DirectiveIndex(fmt, dirs) ==
    IF \E k \in 1..Len(fmt) : fmt[k] \in dirs
    THEN CHOOSE k \in 1..Len(fmt) : fmt[k] \in dirs
    ELSE 0

field_at(fmt, texts, k, default) ==
    IF k = 0 THEN default ELSE DirectiveValue(texts[k], fmt[k])

\* The value of directive dir in a matched template, default when absent.
Field(fmt, texts, dirs, default) == field_at(fmt, texts, DirectiveIndex(fmt, dirs), default)

IsLeapYear(y) == (y % 4 = 0 /\ y % 100 # 0) \/ y % 400 = 0
DaysInMonth(m, y) ==
    IF m = 2 THEN (IF IsLeapYear(y) THEN 29 ELSE 28)
    ELSE IF m \in {4, 6, 9, 11} THEN 30
    ELSE 31

\* datetime(year, month, day, hour, minute, second), or the ValueError of a date that is none
datetime(year, month, day, hour, minute, second) ==
    IF year < 1 \/ day > DaysInMonth(month, year) \/ second > 59 THEN ValueError
    ELSE [year |-> year, month |-> month, day |-> day, hour |-> hour, minute |-> minute]

\* The hour of a 12-hour clock (%I with %p) or of a 24-hour clock (%H).
hour_of(fmt, texts) ==
    IF DirectiveIndex(fmt, {"I"}) # 0
    THEN (Field(fmt, texts, {"I"}, 0) % 12) + 12 * Field(fmt, texts, {"p"}, 0)
    ELSE Field(fmt, texts, {"H"}, 0)

parsed(fmt, m) ==
    IF ~m.ok THEN ValueError
    ELSE datetime(Field(fmt, m.texts, {"Y", "y"}, 1900),
                  Field(fmt, m.texts, {"m", "B", "b"}, 1),
                  Field(fmt, m.texts, {"d"}, 1),
                  hour_of(fmt, m.texts),
                  Field(fmt, m.texts, {"M"}, 0),
                  Field(fmt, m.texts, {"S"}, 0))

\* datetime.strptime(s, fmt): the datetime, or ValueError
strptime(s, fmt) == parsed(fmt, MatchTemplate(s, 1, fmt, 1))

Pad2(n) == IF n < 10 THEN "0" \o IntToStr(n) ELSE IntToStr(n)

\* strftime's %Y.  The C library renders it: glibc writes a year below 1000
\* without leading zeros, other libraries pad it to four digits.
FormatYear(y, padded) ==
    IF padded THEN Zeros(4 - Len(IntToStr(y))) \o IntToStr(y) ELSE IntToStr(y)

\* date_formats, each template as its sequence of directives and literals
\* (" " is white space, which the library matches as \s+)
date_formats ==
    << <<"d", "/", "m", "/", "Y">>, <<"d", "/", "m", "/", "y">>,
       <<"d", "-", "m", "-", "Y">>, <<"d", "-", "m", "-", "y">>,
       <<"d", ".", "m", ".", "Y">>, <<"d", ".", "m", ".", "y">>,
       <<"d", " ", "B", " ", "Y">>, <<"d", " ", "b", " ", "Y">>,
       <<"Y", "/", "m", "/", "d">>, <<"y", "/", "m", "/", "d">>,
       <<"Y", "-", "m", "-", "d">>, <<"y", "-", "m", "-", "d">>,
       <<"Y", ".", "m", ".", "d">>, <<"y", ".", "m", ".", "d">>,
       <<"B", " ", "d", " ", "Y">>, <<"b", " ", "d", " ", "Y">> >>

\* time_formats
time_formats ==
    << <<"H", ":", "M", ":", "S">>, <<"H", ":", "M">>,
       <<"I", ":", "M", ":", "S", " ", "p">>, <<"I", ":", "M", " ", "p">> >>

RECURSIVE FirstParsing(_, _, _)

\* except ValueError: continue
or_next_format(date_obj, s, formats, k) ==
    IF date_obj # ValueError THEN date_obj ELSE FirstParsing(s, formats, k + 1)

\* for fmt in formats: the datetime of the first template from index k on
\* that parses s, ValueError when none does.
FirstParsing(s, formats, k) ==
    IF k > Len(formats) THEN ValueError
    ELSE or_next_format(strptime(s, formats[k]), s, formats, k)

\* date_obj.strftime('%d/%m/%Y'), or the original string when parsing failed
date_text(date_str, date_obj, padded) ==
    IF date_obj = ValueError THEN date_str
    ELSE Pad2(date_obj.day) \o "/" \o Pad2(date_obj.month) \o "/"
             \o FormatYear(date_obj.year, padded)

\* padded: whether the C library pads %Y
standardize_date_format(date_str, padded) ==
    IF date_str = "" THEN ""
    ELSE date_text(date_str, FirstParsing(date_str, date_formats, 1), padded)

\* time_obj.strftime('%H:%M'), or the original string when parsing failed
time_text(time_str, time_obj) ==
    IF time_obj = ValueError THEN time_str
    ELSE Pad2(time_obj.hour) \o ":" \o Pad2(time_obj.minute)

standardize_time_format(time_str) ==
    IF time_str = "" THEN ""
    ELSE time_text(time_str, FirstParsing(time_str, time_formats, 1))

\* (\d{1,2}\s+[A-Za-z]+\s+\d{2,4}) tried at position p with a digits in
\* the day: the position after the match, 0 when none.
SkipLetters(s, i) == IF i > Len(s) THEN i ELSE First(i, Len(s), LAMBDA p : ~IsAlpha(Ch(s, p)))

NamedDateEnd(s, p, a) ==
    LET w == SkipSpaces(s, p + a)
        l == SkipLetters(s, w)
        r == SkipSpaces(s, l)
    IN  IF /\ \A i \in p..(p + a - 1) : IsDigit(Ch(s, i))
           /\ w > p + a /\ l > w /\ r > l
           /\ IsDigit(Ch(s, r)) /\ IsDigit(Ch(s, r + 1))
        THEN (IF ~IsDigit(Ch(s, r + 2)) THEN r + 2
              ELSE IF ~IsDigit(Ch(s, r + 3)) THEN r + 3 ELSE r + 4)
        ELSE 0

\* The first end that is one (not 0).
FirstEnd(e, others) == IF e # 0 THEN e ELSE others

\* self.date_pattern tried at position p: the alternatives in the pattern's
\* order, each with the two-digit reading of \d{1,2} first.
DateEndAt(s, p) ==
    IF ~IsDigit(Ch(s, p)) THEN 0
    ELSE FirstEnd(NumericDateEnd(s, p, 2, 2),
         FirstEnd(NumericDateEnd(s, p, 2, 1),
         FirstEnd(NumericDateEnd(s, p, 1, 2),
         FirstEnd(NumericDateEnd(s, p, 1, 1),
         FirstEnd(NamedDateEnd(s, p, 2), NamedDateEnd(s, p, 1))))))

\* self.time_pattern tried at position p
TimeEndAt(s, p) ==
    IF ~IsDigit(Ch(s, p)) THEN 0 ELSE FirstEnd(TimeEnd(s, p, 2), TimeEnd(s, p, 1))

\* group(1) of the match at p that ends before e, "" when there is no match (e = 0)
matched_text(s, p, e) == IF e # 0 THEN SubSeq(s, p, e - 1) ELSE ""

\* The match of the pattern at p, p being past the end when no position matches.
date_at(s, p) == IF p > Len(s) THEN "" ELSE matched_text(s, p, DateEndAt(s, p))
time_at(s, p) == IF p > Len(s) THEN "" ELSE matched_text(s, p, TimeEndAt(s, p))

\* re.search(self.date_pattern, s).group(1) from position p on, "" when there is no match
first_date(s, p) == date_at(s, First(p, Len(s), LAMBDA q : DateEndAt(s, q) # 0))

\* re.search(self.time_pattern, s).group(1) from position p on, "" when there is no match
first_time(s, p) == time_at(s, First(p, Len(s), LAMBDA q : TimeEndAt(s, q) # 0))

\* The pair (date, time).
extract_date_time(text, padded) ==
    << standardize_date_format(first_date(text, 1), padded),
       standardize_time_format(first_time(text, 1)) >>

-----------------------------------------------------------------------------
(* Item extraction: the shared pieces *)

\* self.categories, in the order of the dict
categories ==
    << [category |-> "FOOD", keywords |-> <<"nasi", "mie", "ayam", "daging", "ikan", "sayur", "sushi",
            "ramen", "butadon", "gyoza", "chicken", "beef", "fish", "rice", "soup">>],
       [category |-> "BEVERAGE", keywords |-> <<"teh", "tea", "kopi", "coffee", "air", "water", "jus",
            "juice", "milk", "susu", "cappuccino", "latte", "espresso", "boba", "bubble">>],
       [category |-> "SNACK", keywords |-> <<"keripik", "chips", "kue", "cake", "coklat", "chocolate",
            "permen", "candy", "cookie", "biskuit", "biscuit">>],
       [category |-> "GROCERY", keywords |-> <<"beras", "rice", "minyak", "oil", "gula", "sugar",
            "tepung", "flour", "telur", "egg">>],
       [category |-> "HOUSEHOLD", keywords |-> <<"sabun", "soap", "deterjen", "detergent", "tissue",
            "pembersih", "cleaner", "sikat", "brush">>],
       [category |-> "PERSONAL_CARE", keywords |-> <<"shampo", "shampoo", "sikat", "brush", "pasta",
            "gigi", "tooth", "deodorant", "lotion">>] >>

\* The first entry of an ordered keyword table with a keyword in text_lower, 0 when none.
FirstEntry(table, text_lower) ==
    IF \E k \in 1..Len(table) : ContainsAny(text_lower, table[k].keywords)
    THEN CHOOSE k \in 1..Len(table) :
            /\ ContainsAny(text_lower, table[k].keywords)
            /\ \A j \in 1..(k - 1) : ~ContainsAny(text_lower, table[j].keywords)
    ELSE 0

categorize_item(item_name) ==
    LET k == FirstEntry(categories, lower(item_name))
    IN  IF k = 0 THEN "OTHER" ELSE categories[k].category

LineItem(name, quantity, price, category) ==
    [name |-> name, quantity |-> quantity, price |-> price, category |-> category]

\* The item of a name, categorized by that name.
categorized(name, quantity, price) == LineItem(name, quantity, price, categorize_item(name))

\* s.find(sub): the 0-based index of the first occurrence, -1 when none
find(s, sub) ==
    IF Contains(s, sub)
    THEN (CHOOSE i \in 1..(Len(s) + 1) :
            StartsAt(s, i, sub) /\ \A j \in 1..(i - 1) : ~StartsAt(s, j, sub)) - 1
    ELSE -1

\* line[:at].strip(); a slice to -1 drops the last character
stripped_slice(line, at) == strip(Upto(line, IF at >= 0 THEN at ELSE Len(line) - 1))

\* line[:line.find(price_match.group(0))].strip()
text_before_price(line, price_match) == stripped_slice(line, find(line, Group0(line, price_match)))

IsX(c) == c \in {"x", "X"}

\* (\d+)\s*[xX] tried at position p, d being the end of the digit run at p:
\* group(1), "" when there is no match
marker_at(line, p, d) ==
    IF IsDigit(Ch(line, p)) /\ IsX(Ch(line, SkipSpaces(line, d)))
    THEN SubSeq(line, p, d - 1)
    ELSE ""

MarkerAt(line, p) == marker_at(line, p, SkipDigits(line, p))

\* The match at the leftmost position from p on.
qty_marker_from(line, p) ==
    MarkerAt(line, First(p, Len(line), LAMBDA q : MarkerAt(line, q) # ""))

\* re.search(r'(\d+)\s*[xX]', line).group(1), "" when there is no match
qty_marker(line) == qty_marker_from(line, 1)

\* quantity = 1; if qty_match: quantity = int(qty_match.group(1))
quantity_of(marker) == IF marker = "" THEN 1 ELSE ToInt(marker)
marked_quantity(line) == quantity_of(qty_marker(line))

\* re.match(r'^(\d+)(\s*)(.+)$', item_name) for a name without line breaks.
\* When nothing follows the digits and the white space, the matcher gives
\* back the last space, or else the last digit, to (.+).
extract_quantity_from_name(item_name) ==
    LET d == SkipDigits(item_name, 1)
        w == SkipSpaces(item_name, d)
        n == Len(item_name)
    IN  IF d = 1 THEN <<1, item_name>>
        ELSE IF w <= n THEN <<ToInt(Upto(item_name, d - 1)), From(item_name, w)>>
        ELSE IF w > d THEN <<ToInt(Upto(item_name, d - 1)), From(item_name, n)>>
        ELSE IF d > 2 THEN <<ToInt(Upto(item_name, d - 2)), From(item_name, n)>>
        ELSE <<1, item_name>>

\* group(1) of that match, the digits int() converts: "" when there is no match
name_digits_of(item_name, d, w) ==
    IF d = 1 THEN ""
    ELSE IF w <= Len(item_name) \/ w > d THEN Upto(item_name, d - 1)
    ELSE IF d > 2 THEN Upto(item_name, d - 2)
    ELSE ""

name_digits(item_name) ==
    name_digits_of(item_name, SkipDigits(item_name, 1),
                   SkipSpaces(item_name, SkipDigits(item_name, 1)))

\* What a strategy leaves: its list of items, or the exception that ended it.
NoItems == [raised |-> "", items |-> <<>>]
Raised(error) == [raised |-> error, items |-> <<>>]
Returned(found) == [raised |-> "", items |-> found]

\* One pass of a loop before the passes after it: an exception ends the loop.
then_items(first, rest) ==
    IF first.raised # "" THEN first
    ELSE IF rest.raised # "" THEN rest
    ELSE Returned(first.items \o rest.items)

\* int(digits) raises ValueError past the limit; "" stands for no conversion.
\* The item a pass appends after int() has converted the digits.
counted_item(digits, item) ==
    IF IntExceedsLimit(digits) THEN Raised("ValueError") ELSE Returned(<< item >>)

\* if name_quantity > 1: quantity = name_quantity; item_name = cleaned_item_name
quantity_from(name_quantity, quantity) ==
    IF name_quantity[1] > 1 THEN name_quantity[1] ELSE quantity
name_from(name_quantity, item_name) ==
    IF name_quantity[1] > 1 THEN name_quantity[2] ELSE item_name

\* re.sub(r'^\d+\s*', '', name)
strip_leading_number(name) ==
    IF IsDigit(Ch(name, 1)) THEN From(name, SkipSpaces(name, SkipDigits(name, 1))) ELSE name

RECURSIVE strip_x_marks(_)
\* re.sub(r'\s*[xX]\s*', '', name): every x, with the white space around it
strip_x_marks(name) ==
    IF name = "" THEN ""
    ELSE IF IsX(Ch(name, SkipSpaces(name, 1)))
    THEN strip_x_marks(From(name, SkipSpaces(name, SkipSpaces(name, 1) + 1)))
    ELSE Ch(name, 1) \o strip_x_marks(From(name, 2))

\* re.sub(r'^\d+\s*[xX]\s*', '', name)
strip_leading_marker(name) ==
    IF IsDigit(Ch(name, 1)) /\ IsX(Ch(name, SkipSpaces(name, SkipDigits(name, 1))))
    THEN From(name, SkipSpaces(name, SkipSpaces(name, SkipDigits(name, 1)) + 1))
    ELSE name

\* The keyword lists written out in extract_items and its helpers.
header_keywords == <<"item", "description", "qty", "price", "amount", "jumlah">>
footer_keywords == <<"subtotal", "sub total", "total", "pajak", "tax">>
prev_line_header_keywords == <<"item", "description", "qty", "price">>
chatime_footer_keywords == <<"subtotal", "total", "tax">>

-----------------------------------------------------------------------------
(* extract_items_from_chatime_receipt *)

\* The position after the run of letters and white space that starts at i.
SkipLettersSpaces(s, i) ==
    IF i > Len(s) THEN i
    ELSE First(i, Len(s), LAMBDA p : ~(IsAlpha(Ch(s, p)) \/ IsSpace(Ch(s, p))))

NoItemMatch == [ok |-> FALSE, quantity |-> "", name |-> "", price |-> ""]

\* The groups of a match: the digits from p up to d, the name from a up to r,
\* the number from r up to e (no match when the name is empty or e = 0).
item_groups(line, p, d, a, r, e) ==
    IF r > a /\ e # 0
    THEN [ok |-> TRUE, quantity |-> SubSeq(line, p, d - 1), name |-> SubSeq(line, a, r - 1),
          price |-> SubSeq(line, r, e - 1)]
    ELSE NoItemMatch

item_number(line, p, d, a, r) == item_groups(line, p, d, a, r, NumberEnd(line, r))

item_marked(line, p, d, x) ==
    IF IsDigit(Ch(line, p)) /\ IsX(Ch(line, x))
    THEN item_number(line, p, d, x + 1, SkipLettersSpaces(line, x + 1))
    ELSE NoItemMatch

item_counted(line, p, d) == item_marked(line, p, d, SkipSpaces(line, d))

\* item_pattern, (\d+)\s*[xX]\s*([A-Za-z\s]+)(?:$$[A-Za-z]$$)?\s*(number),
\* tried at position p.  The optional group asks for a letter after the end
\* of the text and never matches.  The digits run to the end of their run,
\* the name and the white space around it are the run of letters and white
\* space after the x, and the number starts where that run ends.
ItemPatternAt(line, p) == item_counted(line, p, SkipDigits(line, p))

\* The match at the leftmost position from p on.
item_pattern_from(line, p) ==
    ItemPatternAt(line, First(p, Len(line), LAMBDA q : ItemPatternAt(line, q).ok))

\* re.search(item_pattern, line)
item_pattern(line) == item_pattern_from(line, 1)

\* if i + 1 < len(lines) and "SUGAR" in lines[i + 1]: the modifier is appended to the name
with_modifier(item_name, lines, i) ==
    IF i + 1 <= Len(lines) /\ Contains(lines[i + 1], "SUGAR")
    THEN item_name \o " (" \o strip(lines[i + 1]) \o ")"
    ELSE item_name

chatime_matched_item(lines, i, match) ==
    IF match.ok
    THEN counted_item(match.quantity,
                      categorized(with_modifier(strip(match.name), lines, i),
                                  ToInt(match.quantity), fix_price_format(match.price)))
    ELSE NoItems

\* One pass of the first loop: the items line i (1-based) adds.
chatime_pattern_item(lines, i) == chatime_matched_item(lines, i, item_pattern(lines[i]))

\* Whether s, stripped and without its sign, is a run of digits.
IsSignedDigits(body) == body # "" /\ SkipDigits(body, 1) = Len(body) + 1
Unsigned(t) == IF Ch(t, 1) \in {"-", "+"} THEN From(t, 2) ELSE t

\* int(s) raises ValueError
PyIntFails(s) ==
    \/ ~IsSignedDigits(Unsigned(strip(s)))
    \/ IntExceedsLimit(Unsigned(strip(s)))

signed_int(t) == IF Ch(t, 1) = "-" THEN 0 - ToInt(From(t, 2)) ELSE ToInt(Unsigned(t))

\* int(s) for a string over sign and digits that int accepts
PyInt(s) == signed_int(strip(s))

\* line.split('x', 1): the texts before and after the first "x" (one text when there is none)
split_at(line, at) == IF at >= 0 THEN << Upto(line, at), From(line, at + 2) >> ELSE << line >>
split_at_x(line) == split_at(line, find(line, "x"))

\* re.match(r'^\s*\d+(?:[.,]\d+)*\s*$', s) for a stripped line s
RECURSIVE IsSeparatedDigits(_)
IsSeparatedDigits(s) ==
    LET d == SkipDigits(s, 1)
    IN  /\ d > 1
        /\ \/ d = Len(s) + 1
           \/ IsSep(Ch(s, d)) /\ IsSeparatedDigits(From(s, d + 1))

\* The price of the line, else of the next line when that is a bare number, else 0.
chatime_x_price(lines, i, price_match, next_line) ==
    IF Matched(price_match) THEN fix_price_format(Group1(lines[i], price_match))
    ELSE IF i + 1 <= Len(lines) /\ IsSeparatedDigits(next_line) THEN fix_price_format(next_line)
    ELSE Zero

\* if 'x' in item_name: item_name = item_name.split('x', 1)[1].strip()
after_x(item_name) ==
    IF Contains(item_name, "x") THEN strip(split_at_x(item_name)[2]) ELSE item_name

\* The name: the text after the first x, of the text before the price when there is one.
chatime_x_name(line, parts, price_match) ==
    IF Matched(price_match) THEN after_x(text_before_price(line, price_match))
    ELSE strip(parts[2])

chatime_x_entry(line, parts, price_match, price) ==
    IF Positive(price) /\ Len(parts) = 2 /\ ~PyIntFails(parts[1])
    THEN << categorized(chatime_x_name(line, parts, price_match), PyInt(parts[1]), price) >>
    ELSE <<>>

chatime_x_priced(lines, i, price_match) ==
    chatime_x_entry(lines[i], split_at_x(lines[i]), price_match,
                    chatime_x_price(lines, i, price_match,
                                    IF i + 1 <= Len(lines) THEN strip(lines[i + 1]) ELSE ""))

\* One pass of the second loop: the items line i (1-based) adds.
chatime_x_item(lines, i) ==
    IF /\ Contains(lower(lines[i]), "x")
       /\ ~ContainsAny(lower(lines[i]), chatime_footer_keywords)
    THEN chatime_x_priced(lines, i, price_pattern(lines[i]))
    ELSE <<>>

RECURSIVE chatime_pattern_items(_, _)
\* for i, line in enumerate(lines): the first loop from line i on
chatime_pattern_items(lines, i) ==
    IF i > Len(lines) THEN NoItems
    ELSE then_items(chatime_pattern_item(lines, i), chatime_pattern_items(lines, i + 1))

RECURSIVE chatime_x_items(_, _)
\* for i, line in enumerate(lines): the second loop from line i on
chatime_x_items(lines, i) ==
    IF i > Len(lines) THEN <<>>
    ELSE chatime_x_item(lines, i) \o chatime_x_items(lines, i + 1)

\* if not items: the second loop
or_x_items(found, lines) ==
    IF found.raised # "" \/ found.items # <<>> THEN found
    ELSE Returned(chatime_x_items(lines, 1))

chatime_items(lines) == or_x_items(chatime_pattern_items(lines, 1), lines)

extract_items_from_chatime_receipt(text) == chatime_items(split_lines(text))

-----------------------------------------------------------------------------
(* extract_items: the position-based strategy *)

Max(a, b) == IF a >= b THEN a ELSE b
Min(a, b) == IF a <= b THEN a ELSE b

RECURSIVE insert_by_y(_, _)
\* Puts entry e after every entry of the sorted list whose y is not greater.
insert_by_y(sorted_text, e) ==
    IF sorted_text = <<>> THEN << e >>
    ELSE IF e.y < Head(sorted_text).y THEN << e >> \o sorted_text
    ELSE << Head(sorted_text) >> \o insert_by_y(Tail(sorted_text), e)

RECURSIVE sorted_by_y(_)
\* sorted(text_results, key=lambda x: x['position'][0][1]): stable, ascending
sorted_by_y(entries) ==
    IF entries = <<>> THEN <<>>
    ELSE insert_by_y(sorted_by_y(SubSeq(entries, 1, Len(entries) - 1)), entries[Len(entries)])

RECURSIVE first_with_keyword(_, _, _)
\* The 1-based position of the first entry from k on whose lowered text has
\* one of the keywords, 0 when none.
first_with_keyword(sorted_text, keywords, k) ==
    IF k > Len(sorted_text) THEN 0
    ELSE IF ContainsAny(lower(sorted_text[k].text), keywords) THEN k
    ELSE first_with_keyword(sorted_text, keywords, k + 1)

\* header_end, were the estimate five lines whatever the length
header_end_of_five(sorted_text, k) ==
    IF k # 0 THEN k ELSE 5

\* header_end_idx = i + 1 for the first header line i (k is i + 1), else max(5, int(len * 0.15))
header_end(sorted_text, k) ==
    IF k # 0 THEN k ELSE Max(5, (Len(sorted_text) * 15) \div 100)
header_end_idx(sorted_text) ==
    header_end(sorted_text, first_with_keyword(sorted_text, header_keywords, 1))

\* footer_start, were the estimate never below five lines
footer_start_of_five(sorted_text, k) ==
    IF k # 0 THEN k - 1 ELSE Max(5, (Len(sorted_text) * 85) \div 100)

\* footer_start_idx = i for the first footer line i (k is i + 1), else min(len - 5, int(len * 0.85))
footer_start(sorted_text, k) ==
    IF k # 0 THEN k - 1 ELSE Min(Len(sorted_text) - 5, (Len(sorted_text) * 85) \div 100)
footer_start_idx(sorted_text) ==
    footer_start(sorted_text, first_with_keyword(sorted_text, footer_keywords, 1))

\* The item of a valid name: the quantity of the name when above 1, the name
\* without leading number and without any x.
generic_entry(item_name, name_quantity, quantity, price) ==
    categorized(strip_x_marks(strip_leading_number(name_from(name_quantity, item_name))),
                quantity_from(name_quantity, quantity), price)

\* if item_name and len(item_name) >= 2: if self.is_valid_item_name(item_name): ...
generic_candidate(item_name, line, price_str) ==
    IF Len(item_name) >= 2 /\ is_valid_item_name(item_name)
    THEN counted_item(name_digits(item_name),
                      generic_entry(item_name, extract_quantity_from_name(item_name),
                                    marked_quantity(line), fix_price_format(price_str)))
    ELSE NoItems

\* if qty_match: quantity = int(qty_match.group(1)), before the name is looked at
generic_counted(item_name, line, price_str) ==
    IF IntExceedsLimit(qty_marker(line)) THEN Raised("ValueError")
    ELSE generic_candidate(item_name, line, price_str)

\* The text before the price, or the previous line when that text is empty
\* and the previous line has no price and no header keyword.
generic_name(before, i, prev_line) ==
    IF /\ before = "" /\ i > 0
       /\ ~Matched(price_pattern(prev_line))
       /\ ~ContainsAny(lower(prev_line), prev_line_header_keywords)
    THEN prev_line ELSE before

generic_priced(sorted_text, i, line, price_match) ==
    IF Matched(price_match)
    THEN generic_counted(generic_name(text_before_price(line, price_match), i,
                                      sorted_text[i].text),
                         line, Group1(line, price_match))
    ELSE NoItems

\* One pass of the loop over range(header_end_idx, footer_start_idx), i 0-based.
generic_item(sorted_text, i) ==
    generic_priced(sorted_text, i, sorted_text[i + 1].text,
                   price_pattern(sorted_text[i + 1].text))

RECURSIVE generic_items(_, _, _)
\* for i in range(i, stop): sorted_text[i] raises IndexError past the end of the list
generic_items(sorted_text, i, stop) ==
    IF i >= stop THEN NoItems
    ELSE IF i >= Len(sorted_text) \/ i < 0 - Len(sorted_text) THEN Raised("IndexError")
    ELSE then_items(generic_item(sorted_text, i), generic_items(sorted_text, i + 1, stop))

generic_strategy(sorted_text) ==
    generic_items(sorted_text, header_end_idx(sorted_text), footer_start_idx(sorted_text))

-----------------------------------------------------------------------------
(* extract_items_alternative: the line-based strategy *)

\* The item of a valid name: the quantity of the name when above 1, the name
\* without leading number and leading marker.
alternative_entry(item_name, name_quantity, quantity, price) ==
    categorized(strip_leading_marker(strip_leading_number(name_from(name_quantity, item_name))),
                quantity_from(name_quantity, quantity), price)

alternative_candidate(item_name, line, price_str) ==
    IF is_valid_item_name(item_name)
    THEN counted_item(name_digits(item_name),
                      alternative_entry(item_name, extract_quantity_from_name(item_name),
                                        marked_quantity(line), fix_price_format(price_str)))
    ELSE NoItems

\* if qty_match: quantity = int(qty_match.group(1)), before the name is looked at
alternative_counted(item_name, line, price_str) ==
    IF IntExceedsLimit(qty_marker(line)) THEN Raised("ValueError")
    ELSE alternative_candidate(item_name, line, price_str)

\* The text before the price, or the previous line when that text is empty
\* and the previous line is a valid name.
alternative_name(before, k, prev_line) ==
    IF before = "" /\ k > 1 /\ is_valid_item_name(prev_line) THEN prev_line ELSE before

alternative_priced(lines, k, price_match) ==
    IF Matched(price_match)
    THEN alternative_counted(alternative_name(text_before_price(lines[k], price_match), k,
                                              lines[k - 1]),
                             lines[k], Group1(lines[k], price_match))
    ELSE NoItems

\* One pass of the main scan, k the 1-based number of the line (i = k - 1).
alternative_item(lines, k) ==
    IF k - 1 >= 3 /\ ~ContainsAny(lower(lines[k]), footer_keywords)
    THEN alternative_priced(lines, k, price_pattern(lines[k]))
    ELSE NoItems

\* The quantity and the line the two merchant scans go on with: the marked
\* quantity, else the quantity at the front of the stripped line when above 1,
\* and then the line is the text after that quantity.
scan_counted(line, marker, name_quantity) ==
    IF marker # "" THEN << ToInt(marker), line >>
    ELSE IF name_quantity[1] > 1 THEN name_quantity
    ELSE << 1, line >>

scan_quantity(line) ==
    scan_counted(line, qty_marker(line), extract_quantity_from_name(strip(line)))

\* The digits int() converts in the two merchant scans: the marker, else
\* the digits at the front of the stripped line.
scan_digits_of(line, marker) == IF marker # "" THEN marker ELSE name_digits(strip(line))
scan_digits(line) == scan_digits_of(line, qty_marker(line))

\* The item is named by the line that is left, not by the cleaned name.
sushigo_entry(counted, price) ==
    IF is_valid_item_name(strip(counted[2]))
    THEN Returned(<< LineItem(strip(counted[2]), counted[1], price, "FOOD") >>)
    ELSE NoItems

sushigo_counted(line, price) ==
    IF IntExceedsLimit(scan_digits(line)) THEN Raised("ValueError")
    ELSE sushigo_entry(scan_quantity(line), price)

sushigo_priced(line, price_match) ==
    IF Matched(price_match)
    THEN sushigo_counted(line, fix_price_format(Group1(line, price_match)))
    ELSE NoItems

\* One pass of the SUSHIGO scan.
sushigo_item(lines, k) ==
    IF Contains(lines[k], "PIRING") \/ Contains(lines[k], "PLATE")
    THEN sushigo_priced(lines[k], price_pattern(lines[k]))
    ELSE NoItems

\* fix_price_format of the match in text, 0 when there is none
matched_price(text, price_match) ==
    IF Matched(price_match) THEN fix_price_format(Group1(text, price_match)) ELSE Zero

\* The price of the line, else of the next line, else 0.
gomachi_price(lines, k, price_match) ==
    IF Matched(price_match) THEN matched_price(lines[k], price_match)
    ELSE IF k + 1 <= Len(lines) THEN matched_price(lines[k + 1], price_pattern(lines[k + 1]))
    ELSE Zero

\* The item is named by the line that is left, not by the cleaned name.
gomachi_named(counted, price) == LineItem(strip(counted[2]), counted[1], price, "FOOD")

gomachi_entry(line, price) ==
    IF Positive(price) /\ is_valid_item_name(strip(line))
    THEN counted_item(scan_digits(line), gomachi_named(scan_quantity(line), price))
    ELSE NoItems

\* One pass of the GOMACHI scan.
gomachi_item(lines, k) ==
    IF Contains(lines[k], "BUTADON") \/ Contains(lines[k], "RAMEN") \/ Contains(lines[k], "GYOZA")
    THEN gomachi_entry(lines[k], gomachi_price(lines, k, price_pattern(lines[k])))
    ELSE NoItems

RECURSIVE alternative_items(_, _)
alternative_items(lines, k) ==
    IF k > Len(lines) THEN NoItems
    ELSE then_items(alternative_item(lines, k), alternative_items(lines, k + 1))

RECURSIVE sushigo_items(_, _)
sushigo_items(lines, k) ==
    IF k > Len(lines) THEN NoItems
    ELSE then_items(sushigo_item(lines, k), sushigo_items(lines, k + 1))

RECURSIVE gomachi_items(_, _)
gomachi_items(lines, k) ==
    IF k > Len(lines) THEN NoItems
    ELSE then_items(gomachi_item(lines, k), gomachi_items(lines, k + 1))

\* The scan of the receipt type when the main scan found nothing.
typed_items(found, lines, type) ==
    IF found.raised # "" THEN found
    ELSE IF type = "SUSHIGO" /\ found.items = <<>> THEN sushigo_items(lines, 1)
    ELSE IF type = "GOMACHI" /\ found.items = <<>> THEN gomachi_items(lines, 1)
    ELSE found

alternative_scans(lines, type) == typed_items(alternative_items(lines, 1), lines, type)

extract_items_alternative(text, type) == alternative_scans(split_lines(text), type)

\* or_alternative, were the fallback to run whatever the first strategy found
and_alternative(found, text, type) ==
    IF found.raised # "" THEN found
    ELSE extract_items_alternative(text, type)

\* if not items: items = self.extract_items_alternative(full_text, receipt_type)
or_alternative(found, text, type) ==
    IF found.raised # "" THEN found
    ELSE IF found.items = <<>> THEN extract_items_alternative(text, type)
    ELSE found

\* extract_items, were the text-line fallback to follow the CHATIME strategy too
extract_items_with_fallback(entries, type, text) ==
    IF type = "CHATIME"
    THEN or_alternative(extract_items_from_chatime_receipt(text), text, type)
    ELSE or_alternative(generic_strategy(sorted_by_y(entries)), text, type)

\* extract_items: the result is the list of items, or the exception that left it.
extract_items(entries, type, text) ==
    IF type = "CHATIME" THEN extract_items_from_chatime_receipt(text)
    ELSE or_alternative(generic_strategy(sorted_by_y(entries)), text, type)

-----------------------------------------------------------------------------
(* extract_totals and calculate_total *)

\* The position after a keyword written at position k whatever its case, 0 when it is not there.
WordEnd(s, k, word) ==
    IF /\ k >= 1 /\ k + Len(word) - 1 <= Len(s)
       /\ LowerChar(Ch(s, k)) = Ch(word, 1)
       /\ lower(SubSeq(s, k, k + Len(word) - 1)) = word
    THEN k + Len(word) ELSE 0

\* The label of each amount at position k: the position after it, 0 when it is not there.
\*   subtotal        (?:subtotal|sub\s*total)
\*   tax             (?:tax|pajak|pb1)
\*   service_charge  (?:service|charge)
\*   total           (?:^|\s)total, ^ being the start of the whole text only
LabelEnd(field, s, k) ==
    CASE field = "subtotal" ->
            IF WordEnd(s, k, "sub") = 0 THEN 0 ELSE WordEnd(s, SkipSpaces(s, k + 3), "total")
      [] field = "tax" ->
            IF WordEnd(s, k, "tax") # 0 THEN k + 3
            ELSE IF WordEnd(s, k, "pajak") # 0 THEN k + 5
            ELSE WordEnd(s, k, "pb1")
      [] field = "service_charge" ->
            IF WordEnd(s, k, "service") # 0 THEN k + 7 ELSE WordEnd(s, k, "charge")
      [] field = "total" ->
            IF k = 1 /\ WordEnd(s, 1, "total") # 0 THEN 6
            ELSE IF IsSpace(Ch(s, k)) THEN WordEnd(s, k + 1, "total")
            ELSE 0

RECURSIVE LazyAmount(_, _)
\* .*?(?:Rp\.?|Rp)?\s*(number) with re.IGNORECASE from position j on:
\* .*? takes as few characters of the line as it can before an amount matches.
LazyAmount(s, j) ==
    IF j > Len(s) THEN NoMatch
    ELSE OrElse(AmountAt(s, j, TRUE),
                IF Ch(s, j) = "\n" THEN NoMatch ELSE LazyAmount(s, j + 1))

\* The amount after the label that ends before e (no match when e = 0).
amount_after(s, e) == IF e = 0 THEN NoMatch ELSE LazyAmount(s, e)

\* The labelled amount at position k, no match past the end.
labelled_at(field, s, k) ==
    IF k > Len(s) THEN NoMatch ELSE amount_after(s, LabelEnd(field, s, k))

\* re.search of the labelled amount from position k on: the leftmost label an amount follows
LabelledFrom(field, s, k) ==
    labelled_at(field, s, First(k, Len(s), LAMBDA q : Matched(labelled_at(field, s, q))))

\* fix_price_format(match.group(1)), None when there is no match
amount_or_none(s, match) ==
    IF Matched(match) THEN fix_price_format(Group1(s, match)) ELSE None

labelled_amount(field, s) == amount_or_none(s, LabelledFrom(field, s, 1))

extract_totals(text) ==
    [subtotal |-> labelled_amount("subtotal", text),
     tax |-> labelled_amount("tax", text),
     service_charge |-> labelled_amount("service_charge", text),
     total |-> labelled_amount("total", text)]

RECURSIVE sum_prices(_)
\* sum(item['price'] for item in items)
sum_prices(found) ==
    IF found = <<>> THEN Zero ELSE Add(Head(found).price, sum_prices(Tail(found)))

\* if extra is not None: items_total += extra
plus_present(items_total, extra) ==
    IF extra # None THEN Add(items_total, extra) ELSE items_total

\* A fault: the extracted total tested for truth, so that 0.0 counts as absent.
calculate_total_if_truthy(found, extracted) ==
    IF extracted.total # None /\ ~IsZero(extracted.total) THEN extracted.total
    ELSE plus_present(plus_present(sum_prices(found), extracted.tax), extracted.service_charge)

calculate_total(found, extracted) ==
    IF extracted.total # None THEN extracted.total
    ELSE plus_present(plus_present(sum_prices(found), extracted.tax), extracted.service_charge)

-----------------------------------------------------------------------------
(* identify_receipt_type, extract_merchant_name, extract_payment_method *)

\* identify_receipt_type, were CHATIME looked for before GOMACHI
identify_chatime_first(text) ==
    LET text_lower == lower(text)
        has(word) == Contains(text_lower, word)
    IN  IF has("chatime") \/ has("milk tea") \/ has("chatine") THEN "CHATIME"
        ELSE IF has("gomachi") \/ has("japanese ramen") \/ has("gemachi") THEN "GOMACHI"
        ELSE IF has("sushigo") \/ has("one price sushi") THEN "SUSHIGO"
        ELSE IF has("hokben") \/ has("hoka ichiman") THEN "HOKBEN"
        ELSE IF has("indomaret") \/ has("indomarco") THEN "INDOMARET"
        ELSE IF has("warung ce") \/ has("goldfinch") THEN "WARUNG_CE"
        ELSE "UNKNOWN"

identify_receipt_type(text) ==
    LET text_lower == lower(text)
        has(word) == Contains(text_lower, word)
    IN  IF has("gomachi") \/ has("japanese ramen") \/ has("gemachi") THEN "GOMACHI"
        ELSE IF has("chatime") \/ has("milk tea") \/ has("chatine") THEN "CHATIME"
        ELSE IF has("sushigo") \/ has("one price sushi") THEN "SUSHIGO"
        ELSE IF has("hokben") \/ has("hoka ichiman") THEN "HOKBEN"
        ELSE IF has("indomaret") \/ has("indomarco") THEN "INDOMARET"
        ELSE IF has("warung ce") \/ has("goldfinch") THEN "WARUNG_CE"
        ELSE "UNKNOWN"

\* The spellings of its name each receipt type is looked up by.
merchant_spellings(type) ==
    CASE type = "GOMACHI" -> <<"Gomachi", "GOMACHI", "Gemachi">>
      [] type = "CHATIME" -> <<"Chatime", "CHATIME", "Chatine">>
      [] type = "SUSHIGO" -> <<"SUSHIGO", "Sushigo">>
      [] type = "HOKBEN" -> <<"HOKBEN", "HokBen">>
      [] type = "INDOMARET" -> <<"INDOMARET", "Indomaret">>
      [] type = "WARUNG_CE" -> <<"Warung Ce", "WARUNG CE">>
      [] OTHER -> <<>>

\* extract_merchant_name, were every token looked at and not the first five
extract_merchant_name_of_any_line(entries, type) ==
    LET sorted_text == sorted_by_y(entries)
        top == 1..Len(sorted_text)
        hit(k) == ContainsAny(sorted_text[k].text, merchant_spellings(type))
        first == CHOOSE k \in top : hit(k) /\ \A j \in 1..(k - 1) : ~hit(j)
    IN  IF \E k \in top : hit(k)
        THEN (IF type = "GOMACHI" THEN "Gomachi"
              ELSE IF type = "CHATIME" THEN "Chatime"
              ELSE sorted_text[first].text)
        ELSE IF sorted_text # <<>> THEN sorted_text[1].text
        ELSE "Unknown Merchant"

extract_merchant_name(entries, type) ==
    LET sorted_text == sorted_by_y(entries)
        top == 1..Min(5, Len(sorted_text))
        hit(k) == ContainsAny(sorted_text[k].text, merchant_spellings(type))
        first == CHOOSE k \in top : hit(k) /\ \A j \in 1..(k - 1) : ~hit(j)
    IN  IF \E k \in top : hit(k)
        THEN (IF type = "GOMACHI" THEN "Gomachi"
              ELSE IF type = "CHATIME" THEN "Chatime"
              ELSE sorted_text[first].text)
        ELSE IF sorted_text # <<>> THEN sorted_text[1].text
        ELSE "Unknown Merchant"

payment_methods ==
    << [category |-> "CASH", keywords |-> <<"cash", "tunai", "uang tunai">>],
       [category |-> "CARD", keywords |-> <<"card", "kartu", "edc">>],
       [category |-> "DEBIT", keywords |-> <<"debit">>],
       [category |-> "CREDIT", keywords |-> <<"credit", "kredit", "cc">>],
       [category |-> "QR_PAYMENT", keywords |-> <<"qr", "qris">>],
       [category |-> "OVO", keywords |-> <<"ovo">>],
       [category |-> "GOPAY", keywords |-> <<"gopay", "gojek">>],
       [category |-> "DANA", keywords |-> <<"dana">>],
       [category |-> "BCA", keywords |-> <<"bca">>],
       [category |-> "MANDIRI", keywords |-> <<"mandiri">>] >>

\* extract_payment_method, were the last method with a keyword to win
extract_last_payment_method(text) ==
    LET hit(k) == ContainsAny(lower(text), payment_methods[k].keywords)
    IN  IF \E k \in 1..Len(payment_methods) : hit(k)
        THEN payment_methods[Last(1, Len(payment_methods), hit)].category
        ELSE "UNKNOWN"

extract_payment_method(text) ==
    LET k == FirstEntry(payment_methods, lower(text))
    IN  IF k = 0 THEN "UNKNOWN" ELSE payment_methods[k].category

-----------------------------------------------------------------------------
(* process_receipt, one step per statement *)

RECURSIVE texts_of(_)
texts_of(entries) ==
    IF entries = <<>> THEN <<>> ELSE << Head(entries).text >> \o texts_of(Tail(entries))

\* extract_text: ([], "") when the engine found nothing, else the tokens in
\* the order the engine gave them and their texts joined by line breaks.
ExtractText ==
    /\ pc = "extract_text"
    /\ text_results' = [k \in 1..Len(ocr_result) |->
                            [text |-> ocr_result[k].text, y |-> ocr_result[k].y]]
    /\ full_text' = join_lines(texts_of(ocr_result))
    /\ pc' = "check_text"
    /\ UNCHANGED service
    /\ UNCHANGED <<ocr_result, receipt_type, merchant_name, date, time, items, totals,
                   total, payment_method, result, arg, ret>>

\* A fault: the failure result carries an empty item list as well.
NoTextDetectedWithItems ==
    /\ pc = "check_text"
    /\ text_results = <<>>
    /\ result' = [success |-> FALSE, error |-> "No text detected in the image", items |-> <<>>]
    /\ pc' = "done"
    /\ UNCHANGED service
    /\ UNCHANGED <<ocr_result, text_results, full_text, receipt_type, merchant_name, date,
                   time, items, totals, total, payment_method, arg, ret>>

\* if not text_results: return {'success': False, 'error': ...}
NoTextDetected ==
    /\ pc = "check_text"
    /\ text_results = <<>>
    /\ result' = [success |-> FALSE, error |-> "No text detected in the image"]
    /\ pc' = "done"
    /\ UNCHANGED service
    /\ UNCHANGED <<ocr_result, text_results, full_text, receipt_type, merchant_name, date,
                   time, items, totals, total, payment_method, arg, ret>>

IdentifyReceiptType ==
    /\ pc = "check_text"
    /\ text_results # <<>>
    /\ receipt_type' = identify_receipt_type(full_text)
    /\ pc' = "extract_merchant_name"
    /\ UNCHANGED service
    /\ UNCHANGED <<ocr_result, text_results, full_text, merchant_name, date, time, items,
                   totals, total, payment_method, result, arg, ret>>

ExtractMerchantName ==
    /\ pc = "extract_merchant_name"
    /\ merchant_name' = extract_merchant_name(text_results, receipt_type)
    /\ pc' = "extract_date_time"
    /\ UNCHANGED service
    /\ UNCHANGED <<ocr_result, text_results, full_text, receipt_type, date, time, items,
                   totals, total, payment_method, result, arg, ret>>

\* date, time = self.extract_date_time(full_text)
DateTimeBecomes(date_time) == date' = date_time[1] /\ time' = date_time[2]

\* strftime("%Y") of a year below 1000 is padded to four digits or not,
\* as the C library of the platform decides.
ExtractDateTime ==
    /\ pc = "extract_date_time"
    /\ \E padded \in BOOLEAN : DateTimeBecomes(extract_date_time(full_text, padded))
    /\ pc' = "extract_items"
    /\ UNCHANGED service
    /\ UNCHANGED <<ocr_result, text_results, full_text, receipt_type, merchant_name, items,
                   totals, total, payment_method, result, arg, ret>>

\* items = ..., unless extract_items raised: the exception is not caught and
\* ends process_receipt.
ItemsBecome(found) ==
    IF found.raised # ""
    THEN /\ pc' = "raised"
         /\ result' = [raised |-> found.raised]
         /\ items' = items
    ELSE /\ pc' = "extract_totals"
         /\ result' = result
         /\ items' = found.items

ExtractItems ==
    /\ pc = "extract_items"
    /\ ItemsBecome(extract_items(text_results, receipt_type, full_text))
    /\ UNCHANGED service
    /\ UNCHANGED <<ocr_result, text_results, full_text, receipt_type, merchant_name, date,
                   time, totals, total, payment_method, arg, ret>>

ExtractTotals ==
    /\ pc = "extract_totals"
    /\ totals' = extract_totals(full_text)
    /\ pc' = "calculate_total"
    /\ UNCHANGED service
    /\ UNCHANGED <<ocr_result, text_results, full_text, receipt_type, merchant_name, date,
                   time, items, total, payment_method, result, arg, ret>>

CalculateTotal ==
    /\ pc = "calculate_total"
    /\ total' = calculate_total(items, totals)
    /\ pc' = "extract_payment_method"
    /\ UNCHANGED service
    /\ UNCHANGED <<ocr_result, text_results, full_text, receipt_type, merchant_name, date,
                   time, items, totals, payment_method, result, arg, ret>>

ExtractPaymentMethod ==
    /\ pc = "extract_payment_method"
    /\ payment_method' = extract_payment_method(full_text)
    /\ pc' = "prepare_result"
    /\ UNCHANGED service
    /\ UNCHANGED <<ocr_result, text_results, full_text, receipt_type, merchant_name, date,
                   time, items, totals, total, result, arg, ret>>

PrepareResult ==
    /\ pc = "prepare_result"
    /\ result' = [success |-> TRUE,
                  merchant_name |-> merchant_name,
                  receipt_type |-> receipt_type,
                  date |-> date,
                  time |-> time,
                  items |-> items,
                  subtotal |-> totals.subtotal,
                  tax |-> totals.tax,
                  service_charge |-> totals.service_charge,
                  total |-> total,
                  payment_method |-> payment_method,
                  raw_text |-> full_text]
    /\ pc' = "done"
    /\ UNCHANGED service
    /\ UNCHANGED <<ocr_result, text_results, full_text, receipt_type, merchant_name, date,
                   time, items, totals, total, payment_method, arg, ret>>

-----------------------------------------------------------------------------
(* Direct calls of one method, as a test of the class makes them *)

\* self.fix_price_format(arg)
FixPriceFormat ==
    /\ pc = "fix_price_format"
    /\ ret' = fix_price_format(arg)
    /\ pc' = "price_fixed"
    /\ UNCHANGED service
    /\ UNCHANGED <<ocr_result, text_results, full_text, receipt_type, merchant_name, date,
                   time, items, totals, total, payment_method, result, arg>>

\* self.fix_price_format(str(ret)): the price returned is written out and fixed again
FixPriceFormatAgain ==
    /\ pc = "price_fixed"
    /\ result' = fix_price_format(PyStr(ret))
    /\ pc' = "price_fixed_again"
    /\ UNCHANGED service
    /\ UNCHANGED <<ocr_result, text_results, full_text, receipt_type, merchant_name, date,
                   time, items, totals, total, payment_method, arg, ret>>

\* self.is_valid_item_name(arg)
IsValidItemName ==
    /\ pc = "is_valid_item_name"
    /\ ret' = is_valid_item_name(arg)
    /\ pc' = "name_checked"
    /\ UNCHANGED service
    /\ UNCHANGED <<ocr_result, text_results, full_text, receipt_type, merchant_name, date,
                   time, items, totals, total, payment_method, result, arg>>

\* self.standardize_date_format(arg)
StandardizeDateFormat ==
    /\ pc = "standardize_date_format"
    /\ \E padded \in BOOLEAN : ret' = standardize_date_format(arg, padded)
    /\ pc' = "date_standardized"
    /\ UNCHANGED service
    /\ UNCHANGED <<ocr_result, text_results, full_text, receipt_type, merchant_name, date,
                   time, items, totals, total, payment_method, result, arg>>

-----------------------------------------------------------------------------
(* The runs of process_receipt that are explored *)

\* The most tokens of a receipt whose texts are drawn freely.
MaxTokens == 3

\* The most filler lines before and after the drawn tokens of a long receipt.
MaxLead == 5
MaxTrail == 6

\* The texts the OCR engine may give a token.
Vocabulary ==
    { "GOMACHI RESTO", "2 GYOZA 25.000", "TOTAL 25.000", "ITEM", "0x NASI GORENG 25.000",
      "0 x MILK TEA 25.000", "ES TEH 1.000.000", "Tax 2.500" }

\* The texts of the drawn tokens of a long receipt, and the text of its filler lines.
LongVocabulary == { "NASI GORENG 25.000", "25.000" }
Filler == "MIE AYAM"

\* The tokens of the texts, top to bottom in the order given ("reading") or
\* bottom to top ("reversed"): y is the row of the token's top-left corner.
Layouts == { "reading", "reversed" }
Laid(texts, layout) ==
    [k \in 1..Len(texts) |->
        [text |-> texts[k], y |-> IF layout = "reading" THEN k ELSE Len(texts) + 1 - k]]

SeqsUpTo(S, lo, hi) == UNION { [1..n -> S] : n \in lo..hi }

ShortReceipts ==
    { Laid(texts, layout) : texts \in SeqsUpTo(Vocabulary, 0, MaxTokens), layout \in Layouts }

LongReceipts ==
    { Laid([k \in 1..lead |-> Filler] \o body \o [k \in 1..trail |-> Filler], "reading") :
        lead \in 0..MaxLead, trail \in 0..MaxTrail, body \in SeqsUpTo(LongVocabulary, 1, MaxTokens) }

\* A line whose quantity marker has n digits.
LongMarker(n) == "NASI 25.000 " \o Zeros(n) \o "x"

\* Receipts with a marker of as many digits as int() converts, and of one more.
MarkerReceipts ==
    { Laid(<< "ITEM", LongMarker(n), "TOTAL 25.000" >>, "reading") :
        n \in {int_max_str_digits, int_max_str_digits + 1} }

Receipts == ShortReceipts \cup LongReceipts \cup MarkerReceipts

Init ==
    /\ pc = "extract_text"
    /\ ocr_result \in Receipts
    /\ text_results = Unset
    /\ full_text = Unset
    /\ receipt_type = Unset
    /\ merchant_name = Unset
    /\ date = Unset
    /\ time = Unset
    /\ items = Unset
    /\ totals = Unset
    /\ total = Unset
    /\ payment_method = Unset
    /\ result = Unset
    /\ arg = Unset
    /\ ret = Unset
    /\ files = Unset
    /\ requests = Unset

Next ==
    \/ ExtractText
    \/ NoTextDetected
    \/ IdentifyReceiptType
    \/ ExtractMerchantName
    \/ ExtractDateTime
    \/ ExtractItems
    \/ ExtractTotals
    \/ CalculateTotal
    \/ ExtractPaymentMethod
    \/ PrepareResult

Spec == Init /\ [][Next]_vars

\* The state in which process_receipt starts on one of the receipts.
Started(receipts) ==
    /\ pc = "extract_text"
    /\ ocr_result \in receipts
    /\ text_results = Unset
    /\ full_text = Unset
    /\ receipt_type = Unset
    /\ merchant_name = Unset
    /\ date = Unset
    /\ time = Unset
    /\ items = Unset
    /\ totals = Unset
    /\ total = Unset
    /\ payment_method = Unset
    /\ result = Unset
    /\ arg = Unset
    /\ ret = Unset
    /\ files = Unset
    /\ requests = Unset

-----------------------------------------------------------------------------
(* The runs of process_receipt that exercise the item strategies *)

\* The most lines drawn freely after the head of a receipt.
MaxBody == 2

\* The most tokens of a receipt whose header and footer lines are placed.
MaxLines == 11

\* The tokens of a receipt long enough for 15% of it to exceed five lines.
TallLines == 40

\* The first token of a receipt: no merchant the processor knows, or one it knows.
ItemHeads == { "KEDAI", "CHATIME", "SUSHIGO", "GOMACHI" }

\* The lines drawn after a head, and those drawn between header and footer.
HeadedVocabulary ==
    { "1 x MILK TEA 25.000", "2x5.000", "NASI GORENG 25.000", "1 3x 5.000", "PIRING 5.000",
      "GYOZA 25.000", "Tax NASI 2.500" }
FramedVocabulary == { "2 x 5.000", "1 NASI 3x 25.000", "NASI GORENG 25.000" }

\* A head, no or two filler lines, and the lines drawn: too short for the
\* position-based strategy without a header line.
HeadedReceipts ==
    { Laid(<< head >> \o [k \in 1..lead |-> Filler] \o body, "reading") :
        head \in ItemHeads, lead \in {0, 2}, body \in SeqsUpTo(HeadedVocabulary, 0, MaxBody) }

\* The lines drawn between a header line and a footer line.
FramedReceipts ==
    { Laid(<< "ITEM" >> \o body \o << "TOTAL 5.000" >>, layout) :
        body \in SeqsUpTo(FramedVocabulary, 1, MaxBody), layout \in Layouts }

\* A line whose price tells its place i (from 0) in the receipt.
PricedLine(i) == "NASI GORENG " \o IntToStr(i + 1) \o ".000"

\* n lines, with a header line at place h and a footer line at place f (from 1; 0 is none).
Placed(n, h, f) ==
    [k \in 1..n |-> IF k = f THEN "TOTAL" ELSE IF k = h THEN "ITEM" ELSE PricedLine(k - 1)]

PlacedReceipts ==
    { Laid(Placed(n, h, f), "reading") :
        <<n, h, f>> \in { t \in (0..MaxLines) \X (0..MaxLines) \X (0..MaxLines) :
                            t[2] <= t[1] /\ t[3] <= t[1] } }
        \cup { Laid(Placed(TallLines, 0, 0), layout) : layout \in Layouts }

ItemReceipts == HeadedReceipts \cup FramedReceipts \cup PlacedReceipts

ItemInit == Started(ItemReceipts)
ItemSpec == ItemInit /\ [][Next]_vars

-----------------------------------------------------------------------------
(* The runs of process_receipt that exercise the labelled amounts *)

LabelVocabulary ==
    { "KEDAI", "Subtotal 5.000", "Sub Total 5.000", "Total 6.000", "NASI GORENG 5.000",
      "Tax 500" }

LabelReceipts ==
    { Laid(texts, "reading") : texts \in SeqsUpTo(LabelVocabulary, 0, MaxTokens) }

LabelInit == Started(LabelReceipts)
LabelSpec == LabelInit /\ [][Next]_vars

-----------------------------------------------------------------------------
(* The runs of process_receipt that exercise the classifier and the merchant *)
(* name: merchants' names in several spellings, after some filler lines.     *)

MerchantVocabulary ==
    { "GOMACHI RESTO", "Chatime", "Sushigo Plaza", "sushigo", "HOKBEN", "KEDAI",
      "Indomaret", "Goldfinch", "Milk tea" }

MerchantReceipts ==
    { Laid([k \in 1..lead |-> Filler] \o body, layout) :
        lead \in 0..MaxLead, body \in SeqsUpTo(MerchantVocabulary, 0, MaxBody),
        layout \in Layouts }

MerchantInit == Started(MerchantReceipts)
MerchantSpec == MerchantInit /\ [][Next]_vars

-----------------------------------------------------------------------------
(* The runs of process_receipt that exercise the payment method: keywords   *)
(* of several methods, alone and together, in several spellings.            *)

PaymentVocabulary ==
    { "KEDAI", "CASH", "Debit Card", "Kartu Kredit", "QRIS", "GoPay", "Dana", "BCA Mandiri",
      "OVO" }

PaymentReceipts ==
    { Laid(texts, layout) :
        texts \in SeqsUpTo(PaymentVocabulary, 0, MaxBody), layout \in Layouts }

PaymentInit == Started(PaymentReceipts)
PaymentSpec == PaymentInit /\ [][Next]_vars

-----------------------------------------------------------------------------
(* Direct calls of extract_items on token lists of every length from 0,     *)
(* with a header and a footer line at every place.                          *)

\* A line that is a price and nothing else: its name is looked up in the line before.
BareLine(i) == IntToStr(i + 1) \o ".000"

\* Placed(n, h, f) with every other priced line bare.
PlacedBare(n, h, f) ==
    [k \in 1..n |-> IF k = f THEN "TOTAL" ELSE IF k = h THEN "ITEM"
                    ELSE IF k % 2 = 0 THEN PricedLine(k - 1) ELSE BareLine(k - 1)]

BoundaryTexts ==
    { Placed(t[1], t[2], t[3]) :
        t \in { t \in (0..MaxLines) \X (0..MaxLines) \X (0..MaxLines) :
                  t[2] <= t[1] /\ t[3] <= t[1] } }
      \cup { PlacedBare(t[1], t[2], t[3]) :
        t \in { t \in (0..MaxLines) \X (0..MaxLines) \X (0..MaxLines) :
                  t[2] <= t[1] /\ t[3] <= t[1] } }
      \cup { Placed(TallLines, 0, 0), PlacedBare(TallLines, 0, 0) }

\* self.extract_items(text_results, receipt_type, full_text) is about to run
\* on the tokens of the texts, the other stages not having run.
ExtractItemsCalled(texts, layout) ==
    /\ pc = "extract_items"
    /\ text_results = Laid(texts, layout)
    /\ full_text = join_lines(texts)
    /\ receipt_type = identify_receipt_type(join_lines(texts))
    /\ ocr_result = Unset
    /\ merchant_name = Unset
    /\ date = Unset
    /\ time = Unset
    /\ items = Unset
    /\ totals = Unset
    /\ total = Unset
    /\ payment_method = Unset
    /\ result = Unset
    /\ arg = Unset
    /\ ret = Unset
    /\ files = Unset
    /\ requests = Unset

BoundaryInit == \E texts \in BoundaryTexts, layout \in Layouts : ExtractItemsCalled(texts, layout)
BoundaryNext == ExtractItems
BoundarySpec == BoundaryInit /\ [][BoundaryNext]_vars

-----------------------------------------------------------------------------
(* The direct calls that are explored *)

\* The state before method is called with argument a.
Call(method, a) ==
    /\ pc = method
    /\ arg = a
    /\ ocr_result = Unset
    /\ text_results = Unset
    /\ full_text = Unset
    /\ receipt_type = Unset
    /\ merchant_name = Unset
    /\ date = Unset
    /\ time = Unset
    /\ items = Unset
    /\ totals = Unset
    /\ total = Unset
    /\ payment_method = Unset
    /\ result = Unset
    /\ ret = Unset
    /\ files = Unset
    /\ requests = Unset

RECURSIVE Concat(_)
Concat(parts) == IF parts = <<>> THEN "" ELSE Head(parts) \o Concat(Tail(parts))

\* Price strings: a head, at most MaxGroups groups of three digits, a tail.
MaxGroups == 2
PriceHeads == { "", "0", "1", "12", "500", "Rp 25" }
PriceGroups == { ".000", ",000", ".345", ",345" }
PriceTails == { "", ".", ".5", ",5", ",50", ",0", ",00" }

\* A price of 10^16, which str writes with an exponent.
BigPrice == "10,000,000,000,000,000"

PriceStrings ==
    { h \o Concat(g) \o t :
        h \in PriceHeads, g \in SeqsUpTo(PriceGroups, 0, MaxGroups), t \in PriceTails }
    \cup { BigPrice }

PriceInit == \E s \in PriceStrings : Call("fix_price_format", s)
PriceNext == FixPriceFormat \/ FixPriceFormatAgain
PriceSpec == PriceInit /\ [][PriceNext]_vars

\* The runs of process_receipt together with the direct calls of fix_price_format.
AmountInit == Init \/ PriceInit
AmountNext == Next \/ PriceNext
AmountSpec == AmountInit /\ [][AmountNext]_vars

\* Candidate item names: a text, after a quantity or a word, before a number or a mark.
NameTexts ==
    { "Total Rp 50.000", "15/08/2023", "12345", "Tax", "NASI GORENG", "A", "", "12 34",
      "Rp 5000", "Rp.5000", "AB 12345", "12:30", "SUGAR LESS", "LESS", "ICE LESS SUGAR",
      "Jl. Sudirman", "MIE AYAM", "ES TEH", "EDC", "Sub  total", "GYOZA" }
NameFronts == { "", "2 ", "ES " }
NameEnds == { "", " 1", " x" }
Names == { f \o t \o e : f \in NameFronts, t \in NameTexts, e \in NameEnds }

NameInit == \E s \in Names : Call("is_valid_item_name", s)
NameNext == IsValidItemName
NameSpec == NameInit /\ [][NameNext]_vars

\* Date strings: day, month and year in both orders with each separator, and
\* texts that are no numeric date.
DateDays == { "15", "5", "31", "01" }
DateMonths == { "08", "8", "02", "13" }
DateYears == { "2023", "23", "0999" }
DateSeps == { "/", "-", "." }
DateTexts == { "", "hello", "15 August 2023", "15 aug 2023", "August 15 2023", "Aug 15 2023",
               "15 Agustus 2023", "2 GYOZA 25", "15/08-2023", "15/08/2023 " }
DateStrings ==
    { d \o s \o m \o s \o y : d \in DateDays, m \in DateMonths, y \in DateYears, s \in DateSeps }
    \cup { y \o s \o m \o s \o d : d \in DateDays, m \in DateMonths, y \in DateYears, s \in DateSeps }
    \cup DateTexts

DateInit == \E s \in DateStrings : Call("standardize_date_format", s)
DateNext == StandardizeDateFormat
DateSpec == DateInit /\ [][DateNext]_vars

\* Items and extracted totals that calculate_total is given.
MaxItems == 2
ItemPrices == { Amount(10000), Amount(25000) }
ItemLists ==
    SeqsUpTo({ LineItem("GYOZA", q, p, "FOOD") : q \in {1, 2}, p \in ItemPrices }, 0, MaxItems)
ExtractedTotals ==
    [subtotal : {None},
     tax : {None, Zero, Amount(2000)},
     service_charge : {None, Amount(1500)},
     total : {None, Zero, Amount(38500)}]

TotalInit ==
    /\ pc = "calculate_total"
    /\ items \in ItemLists
    /\ totals \in ExtractedTotals
    /\ ocr_result = Unset
    /\ text_results = Unset
    /\ full_text = Unset
    /\ receipt_type = Unset
    /\ merchant_name = Unset
    /\ date = Unset
    /\ time = Unset
    /\ total = Unset
    /\ payment_method = Unset
    /\ result = Unset
    /\ arg = Unset
    /\ ret = Unset
    /\ files = Unset
    /\ requests = Unset
TotalNext == CalculateTotal
TotalSpec == TotalInit /\ [][TotalNext]_vars

-----------------------------------------------------------------------------
(* main.py: the web service.  One module-level ReceiptProcessor serves      *)
(* every request; a request's handler stores the upload under a name made   *)
(* from the client's file name, runs the processor on it and removes it.    *)
(* Worker processes of the service share the working directory, so the      *)
(* statements of two handlers interleave at the file system.                *)

\* process_receipt from its image to its return value: the statements of
\* the steps above, composed.
receipt_found(entries, text, type, date_time, found, extracted) ==
    IF found.raised # ""
    THEN [raised |-> found.raised]
    ELSE [success |-> TRUE,
          merchant_name |-> extract_merchant_name(entries, type),
          receipt_type |-> type,
          date |-> date_time[1],
          time |-> date_time[2],
          items |-> found.items,
          subtotal |-> extracted.subtotal,
          tax |-> extracted.tax,
          service_charge |-> extracted.service_charge,
          total |-> calculate_total(found.items, extracted),
          payment_method |-> extract_payment_method(text),
          raw_text |-> text]

receipt_of_type(entries, text, type, padded) ==
    receipt_found(entries, text, type, extract_date_time(text, padded),
                  extract_items(entries, type, text), extract_totals(text))

receipt_of_text(entries, text, padded) ==
    receipt_of_type(entries, text, identify_receipt_type(text), padded)

process_receipt(entries, padded) ==
    IF entries = <<>>
    THEN [success |-> FALSE, error |-> "No text detected in the image"]
    ELSE receipt_of_text(entries, join_lines(texts_of(entries)), padded)

\* temp_path = f"temp_{file.filename}"
temp_path(filename) == "temp_" \o filename

\* os.path.splitext(path)[0] of a path without directories
splitext_root(path) ==
    IF Last(2, Len(path), LAMBDA p : Ch(path, p) = ".") < 2
    THEN path
    ELSE Upto(path, Last(2, Len(path), LAMBDA p : Ch(path, p) = ".") - 1)

\* preprocessed_path = f"{os.path.splitext(image_path)[0]}_preprocessed.jpg"
preprocessed_path(image_path) == splitext_root(image_path) \o "_preprocessed.jpg"

\* What a path of the working directory holds: nothing, a file that open(.., "wb")
\* has just created or truncated, or an image.  An image is told by the tokens
\* the OCR engine detects on it and by its mode.
Missing == [missing |-> TRUE]
Truncated == [truncated |-> TRUE]
Picture(tokens, mode) == [tokens |-> tokens, mode |-> mode]
IsPicture(content) == content # Missing /\ content # Truncated

\* The requests, file names and images that are explored.
MaxRequests == 2
Requests == 1..MaxRequests
FileNames == {"a.jpg", "a.png", "b.jpg"}
Images == {Picture(Laid(<<"GOMACHI RESTO", "2 GYOZA 25.000", "TOTAL 25.000">>, "reading"), "RGB"),
           Picture(Laid(<<"ES TEH 1.000.000", "Tax 2.500">>, "reading"), "RGB")}
Paths == {temp_path(f) : f \in FileNames}
            \cup {preprocessed_path(temp_path(f)) : f \in FileNames}

\* The request moves to position at, with the locals given.
Moved(r, at, image, outcome) ==
    requests' = [requests EXCEPT ![r] = [file |-> requests[r].file, pc |-> at,
                                         image |-> image, result |-> outcome]]
At(r, at) == requests[r].pc = at
Goes(r, at) == Moved(r, at, requests[r].image, requests[r].result)
Fails(r, error) == Moved(r, "failed", requests[r].image, [raised |-> error])
Stored(path, content) == files' = [files EXCEPT ![path] = content]
PathOf(r) == temp_path(requests[r].file.filename)

\* The pipeline's own variables are not the service's.
NoRun ==
    /\ pc = "serving"
    /\ ocr_result = Unset
    /\ text_results = Unset
    /\ full_text = Unset
    /\ receipt_type = Unset
    /\ merchant_name = Unset
    /\ date = Unset
    /\ time = Unset
    /\ items = Unset
    /\ totals = Unset
    /\ total = Unset
    /\ payment_method = Unset
    /\ result = Unset
    /\ arg = Unset
    /\ ret = Unset

run == <<pc, ocr_result, text_results, full_text, receipt_type, merchant_name,
         date, time, items, totals, total, payment_method, result, arg, ret>>

\* with open(temp_path, "wb") as buffer: the file is created or truncated
OpenTempFile(r) ==
    /\ UNCHANGED run
    /\ At(r, "open")
    /\ Stored(PathOf(r), Truncated)
    /\ Goes(r, "copy")

\* shutil.copyfileobj(file.file, buffer), and the file is closed.  A file
\* that was removed since it was opened takes the bytes with it.
CopyUpload(r) ==
    /\ UNCHANGED run
    /\ At(r, "copy")
    /\ IF files[PathOf(r)] = Missing
       THEN files' = files
       ELSE Stored(PathOf(r), requests[r].file.content)
    /\ Goes(r, "preprocess")

\* preprocess_image: Image.open(image_path).convert('L'), autocontrast, resize
OpenImage(r) ==
    /\ UNCHANGED run
    /\ At(r, "preprocess")
    /\ files' = files
    /\ IF files[PathOf(r)] = Missing
       THEN Fails(r, "FileNotFoundError")
       ELSE IF files[PathOf(r)] = Truncated
            THEN Fails(r, "UnidentifiedImageError")
            ELSE Moved(r, "save", Picture(files[PathOf(r)].tokens, "L"), requests[r].result)

\* preprocess_image: image.save(preprocessed_path)
SaveImage(r) ==
    /\ UNCHANGED run
    /\ At(r, "save")
    /\ Stored(preprocessed_path(PathOf(r)), requests[r].image)
    /\ Goes(r, "ocr")

\* An exception of process_receipt is not caught by the handler.
Processed(r, outcome) ==
    IF "raised" \in DOMAIN outcome
    THEN Moved(r, "failed", requests[r].image, outcome)
    ELSE Moved(r, "remove", requests[r].image, outcome)

\* result = processor.process_receipt(temp_path), from the OCR of the
\* preprocessed image on: the engine reads what the path holds now.
ProcessImage(r) ==
    /\ UNCHANGED run
    /\ At(r, "ocr")
    /\ files' = files
    /\ \E padded \in BOOLEAN :
          Processed(r, process_receipt(files[preprocessed_path(PathOf(r))].tokens, padded))

\* os.remove(temp_path) and return JSONResponse(content=result)
RemoveTempFile(r) ==
    /\ UNCHANGED run
    /\ At(r, "remove")
    /\ IF files[PathOf(r)] = Missing
       THEN files' = files /\ Fails(r, "FileNotFoundError")
       ELSE Stored(PathOf(r), Missing) /\ Goes(r, "responded")

Upload(filename, content) == [filename |-> filename, content |-> content]
Arrived(file) == [file |-> file, pc |-> "open", image |-> Unset, result |-> Unset]

ServiceInit ==
    /\ NoRun
    /\ files = [p \in Paths |-> Missing]
    /\ requests \in [Requests -> {Arrived(Upload(f, c)) : f \in FileNames, c \in Images}]

Handle(r) ==
    \/ OpenTempFile(r)
    \/ CopyUpload(r)
    \/ OpenImage(r)
    \/ SaveImage(r)
    \/ ProcessImage(r)
    \/ RemoveTempFile(r)

ServiceNext == \E r \in Requests : Handle(r)
ServiceSpec == ServiceInit /\ [][ServiceNext]_vars

-----------------------------------------------------------------------------
(* Properties *)

\* C1: a run of process_receipt on a token stream that is not empty never
\* raises, and it ends with success = true and a total that is a number and
\* is at least 0.
NonEmptyRunSucceeds ==
    /\ pc # "raised"
    /\ (pc = "done" /\ ocr_result # <<>>) =>
          /\ result.success = TRUE
          /\ IsNumber(result.total)
          /\ NonNegative(result.total)

\* C2: a run on the empty token stream ends with exactly the record
\* {success: false, error: "No text detected in the image"}, with no other
\* field, and with no later stage executed: every stage after extract_text
\* has left its variable unassigned.
EmptyRunFails ==
    (pc = "done" /\ ocr_result = <<>>) =>
        /\ result = [success |-> FALSE, error |-> "No text detected in the image"]
        /\ DOMAIN result = {"success", "error"}
        /\ receipt_type = Unset
        /\ merchant_name = Unset
        /\ date = Unset
        /\ time = Unset
        /\ items = Unset
        /\ totals = Unset
        /\ total = Unset
        /\ payment_method = Unset

EmptyRunEnded == pc = "done" /\ ocr_result = <<>> /\ result.success = FALSE

\* C3: the tokens "GOMACHI RESTO", "2 GYOZA 25.000", "TOTAL 25.000", top to
\* bottom, give receipt type GOMACHI, exactly one item, named "GYOZA", of
\* quantity 2, price 25000.0 and category FOOD, and the total 25000.0.
GomachiReceipt == Laid(<< "GOMACHI RESTO", "2 GYOZA 25.000", "TOTAL 25.000" >>, "reading")
GomachiExample ==
    (pc = "done" /\ ocr_result = GomachiReceipt) =>
        /\ result.receipt_type = "GOMACHI"
        /\ Len(result.items) = 1
        /\ result.items[1].name = "GYOZA"
        /\ result.items[1].quantity = 2
        /\ result.items[1].price = Amount(25000)
        /\ result.items[1].category = "FOOD"
        /\ result.total = Amount(25000)

\* C5: the quantity of every item of a result is at least 1, also when the
\* line has the marker "0x" or starts with "0".
QuantityAtLeastOne ==
    (pc = "done" /\ ocr_result # <<>>) =>
        \A k \in 1..Len(result.items) : result.items[k].quantity >= 1

\* C4: calculate_total returns the extracted total unchanged when there is
\* one; else the sum of the item prices (not multiplied by the quantities),
\* plus the tax when present, plus the service charge when present.  Items
\* of prices 10000 and 25000 with tax 2000 and service charge 1500 give 38500.
RECURSIVE PricesUpTo(_, _)
PricesUpTo(found, n) == IF n = 0 THEN Zero ELSE Add(PricesUpTo(found, n - 1), found[n].price)
OrZero(extra) == IF extra = None THEN Zero ELSE extra
TotalIsExtractedOrSum ==
    pc = "extract_payment_method" =>
        /\ totals.total # None => total = totals.total
        /\ totals.total = None =>
              total = Add(Add(PricesUpTo(items, Len(items)), OrZero(totals.tax)),
                          OrZero(totals.service_charge))
        /\ ( /\ Len(items) = 2
             /\ items[1].price = Amount(10000) /\ items[2].price = Amount(25000)
             /\ totals.tax = Amount(2000) /\ totals.service_charge = Amount(1500)
             /\ totals.total = None )
           => total = Amount(38500)

\* The example of C4, with a quantity of 2 that does not count.
TotalSummed ==
    /\ pc = "extract_payment_method"
    /\ Len(items) = 2
    /\ items[1].price = Amount(10000) /\ items[1].quantity = 2
    /\ items[2].price = Amount(25000)
    /\ totals.tax = Amount(2000) /\ totals.service_charge = Amount(1500)
    /\ totals.total = None
    /\ total = Amount(38500)

\* C6: every item price and every present totals field of a result is at
\* least 0; fix_price_format returns a number that is at least 0, and 0.0
\* (no exception) when the cleaned string is no number, as for "" and
\* "1.000.000".
Unparsable(price_str) ==
    PyFloat(separated(KeepChars(price_str, Digits \cup {".", ","}))) = ValueError
PresentNonNegative(v) == v = None \/ (IsNumber(v) /\ NonNegative(v))
AmountsNonNegative ==
    /\ (pc = "done" /\ ocr_result # <<>>) =>
          /\ \A k \in 1..Len(result.items) :
                IsNumber(result.items[k].price) /\ NonNegative(result.items[k].price)
          /\ PresentNonNegative(result.subtotal)
          /\ PresentNonNegative(result.tax)
          /\ PresentNonNegative(result.service_charge)
          /\ PresentNonNegative(result.total)
    /\ pc = "price_fixed" =>
          /\ IsNumber(ret) /\ NonNegative(ret)
          /\ Unparsable(arg) => ret = Zero
          /\ arg \in {"", "1.000.000"} => ret = Zero

UnparsablePriceIsZero == pc = "price_fixed" /\ arg = "1.000.000" /\ Unparsable(arg) /\ ret = Zero

\* C7: fix_price_format("1.000,50") = 1000.50, fix_price_format("1,000") =
\* 1000.0 and fix_price_format("500") = 500000.0.
PriceExamples ==
    pc = "price_fixed" =>
        /\ arg = "1.000,50" => ret = Num(FALSE, "1000", "50")
        /\ arg = "1,000" => ret = Amount(1000)
        /\ arg = "500" => ret = Amount(500000)

SmallPriceMultiplied == pc = "price_fixed" /\ arg = "500" /\ ret = Amount(500000)

\* C8: for every string s that the price pattern matches as a whole,
\* fix_price_format(str(fix_price_format(s))) = fix_price_format(s).
IsPriceText(s) == price_pattern(s) = [start |-> 1, num |-> 1, end |-> Len(s) + 1]
PriceFixedTwice == pc = "price_fixed_again" /\ IsPriceText(arg)
FixIsIdempotent == PriceFixedTwice => result = ret

\* C8 as it holds: fixing again changes nothing exactly when the fixed price
\* is 0 or is at least 1000 and below 10^16; a price below 1000 is
\* multiplied once more, and from 10^16 on str writes an exponent.
FixIsIdempotentFromThousand ==
    PriceFixedTwice =>
        (result = ret <=> (IsZero(ret) \/ (Len(ret.ip) >= 4 /\ Len(ret.ip) <= 16)))

\* "12.345" is fixed to 12345.0, and "12345.0" is fixed to 12345.0 again.
FixedPriceKept ==
    /\ PriceFixedTwice
    /\ arg = "12.345"
    /\ PyStr(ret) = "12345.0"
    /\ result = ret

\* C9: is_valid_item_name rejects a text as soon as one of its rules holds
\* and accepts it only when none does; it rejects "Total Rp 50.000",
\* "15/08/2023", "12345" and "Tax" and accepts "NASI GORENG"; the answer is
\* decided by the text and the keyword list alone.
RejectedNames ==
    { "Total Rp 50.000", "15/08/2023", "12345", "Tax", "A", "", "12 34", "Rp 5000", "Rp.5000",
      "AB 12345", "12:30", "SUGAR LESS", "LESS", "Jl. Sudirman", "EDC", "Sub  total",
      "2 LESS", "ES LESS", "LESS x" }
AcceptedNames == { "NASI GORENG", "ICE LESS SUGAR", "MIE AYAM", "ES TEH", "GYOZA", "2 GYOZA" }
SomeRuleRejects(text) ==
    \/ Len(text) < 2
    \/ only_numbers(text)
    \/ has_currency_number(text)
    \/ has_non_item_prefix(lower(text))
    \/ \E k \in 1..Len(non_item_keywords) : Contains(lower(text), non_item_keywords[k])
    \/ has_date(text)
    \/ has_time(text)
    \/ has_postal_code(text)
    \/ is_less_modifier(text)
NameValidity ==
    pc = "name_checked" =>
        /\ ret = ~SomeRuleRejects(arg)
        /\ arg \in RejectedNames => ret = FALSE
        /\ arg \in AcceptedNames => ret = TRUE
        /\ result = Unset /\ items = Unset /\ receipt_type = Unset /\ full_text = Unset

NameAccepted == pc = "name_checked" /\ arg = "NASI GORENG" /\ ret = TRUE

\* C10: standardize_date_format tries its templates in order and returns
\* DD/MM/YYYY for the first that parses: "15/08/2023" stays "15/08/2023",
\* "2023-08-15" becomes "15/08/2023", a string no template parses is
\* returned unchanged, and "" gives "".
IsDayMonthYear(s) ==
    /\ Len(s) = 10
    /\ \A i \in {1, 2, 4, 5, 7, 8, 9, 10} : IsDigit(Ch(s, i))
    /\ Ch(s, 3) = "/" /\ Ch(s, 6) = "/"
Parses(s) == \E k \in 1..Len(date_formats) : strptime(s, date_formats[k]) # ValueError
DateIsDayMonthYear ==
    pc = "date_standardized" =>
        /\ arg = "15/08/2023" => ret = "15/08/2023"
        /\ arg = "2023-08-15" => ret = "15/08/2023"
        /\ arg = "" => ret = ""
        /\ (arg # "" /\ ~Parses(arg)) => ret = arg
        /\ (arg # "" /\ Parses(arg)) => IsDayMonthYear(ret)

\* C11: requests handled concurrently are independent: whatever the
\* interleaving, and also for two uploads with the same file name, a request
\* ends with the result of its own upload, having read no other request's
\* temporary file or preprocessed image and lost none of its own.
OwnResult(r) ==
    \E padded \in BOOLEAN :
        requests[r].result = process_receipt(requests[r].file.content.tokens, padded)
RequestsIndependent ==
    \A r \in Requests :
        /\ ~At(r, "failed")
        /\ At(r, "responded") => OwnResult(r)

\* C12: for a CHATIME receipt extract_items returns what the dedicated strategy
\* finds and nothing else, also when that is nothing: the items of the line
\* pattern when it matched a line, else the items of the scan for "x".
PatternItems == chatime_pattern_items(split_lines(full_text), 1).items
ChatimeOnly ==
    (pc = "extract_totals" /\ receipt_type = "CHATIME") =>
        items = IF PatternItems # <<>> THEN PatternItems
                ELSE chatime_x_items(split_lines(full_text), 1)
ChatimeFoundNothing ==
    /\ pc = "extract_totals"
    /\ receipt_type = "CHATIME"
    /\ items = <<>>
    /\ extract_items_alternative(full_text, "UNKNOWN").items # <<>>

\* C13: in the position-based strategy over the sorted tokens, headerEnd is
\* one past the first token with a column-header keyword, or max(5, 15% of
\* the tokens rounded down) without one; footerStart is the place of the first
\* token with a footer keyword, or min(tokens - 5, 85% of the tokens rounded
\* down) without one; every item of the strategy is the item of a token at a
\* place i with headerEnd <= i < footerStart, and there is no item when
\* headerEnd >= footerStart.
KeywordPlace(sorted_text, keywords) ==
    First(1, Len(sorted_text), LAMBDA k : ContainsAny(lower(sorted_text[k].text), keywords))
HeaderEnd(sorted_text) ==
    IF KeywordPlace(sorted_text, header_keywords) <= Len(sorted_text)
    THEN KeywordPlace(sorted_text, header_keywords)
    ELSE Max(5, (15 * Len(sorted_text)) \div 100)
FooterStart(sorted_text) ==
    IF KeywordPlace(sorted_text, footer_keywords) <= Len(sorted_text)
    THEN KeywordPlace(sorted_text, footer_keywords) - 1
    ELSE Min(Len(sorted_text) - 5, (85 * Len(sorted_text)) \div 100)
ItemsWithin(sorted_text, found, lo, hi) ==
    /\ \A k \in 1..Len(found) :
          \E i \in lo..(hi - 1) :
              i < Len(sorted_text) /\ generic_item(sorted_text, i).items = << found[k] >>
    /\ lo >= hi => found = <<>>
    /\ found # <<>> => items = found
Bounded(sorted_text) ==
    /\ header_end_idx(sorted_text) = HeaderEnd(sorted_text)
    /\ footer_start_idx(sorted_text) = FooterStart(sorted_text)
    /\ ItemsWithin(sorted_text, generic_strategy(sorted_text).items,
                   HeaderEnd(sorted_text), FooterStart(sorted_text))
GenericBounds ==
    (pc = "extract_totals" /\ receipt_type # "CHATIME") => Bounded(sorted_by_y(text_results))
TallReceiptItems ==
    /\ pc = "extract_totals"
    /\ Len(text_results) = TallLines
    /\ HeaderEnd(sorted_by_y(text_results)) = 6
    /\ FooterStart(sorted_by_y(text_results)) = 34
    /\ Len(items) = 28
    /\ items[1].price = Amount(7000)
    /\ items[28].price = Amount(34000)

\* C14: the text blob is the token texts joined by newlines in ascending
\* order of the tokens' top-left y, ties in detection order: the order of the
\* sorted token list, whatever order the tokens were detected in.
FullTextIsSorted ==
    pc = "check_text" => full_text = join_lines(texts_of(sorted_by_y(text_results)))

\* C15: the total comes only from a "total" that starts a line, never from a
\* subtotal line: when the only lines of the text with "total" in them are
\* "Subtotal <amount>" or "Sub Total <amount>", no total is extracted and the
\* subtotal is that amount.
SubtotalLines == { "Subtotal 5.000", "Sub Total 5.000" }
OnlySubtotalLines(lines) ==
    /\ \E k \in 1..Len(lines) : lines[k] \in SubtotalLines
    /\ \A k \in 1..Len(lines) : Contains(lower(lines[k]), "total") => lines[k] \in SubtotalLines
SubtotalGivesNoTotal ==
    (pc = "calculate_total" /\ OnlySubtotalLines(split_lines(full_text))) =>
        (totals.total = None /\ totals.subtotal = Amount(5000))

\* C16: no item of the position-based strategy or of the text-line fallback
\* has an empty name: a candidate whose name is empty once the leading number
\* and the x marks are stripped is dropped.
NamesNotEmpty ==
    (pc = "extract_totals" /\ receipt_type # "CHATIME") =>
        \A k \in 1..Len(items) : items[k].name # ""

\* C17: in the position-based strategy, an accepted candidate name that starts
\* with a digit run followed by text gives the item that number as quantity,
\* whatever a "digits x" marker of the line says, and the rest as name; also
\* when the number is 1.
LeadingDigits(name) == Upto(name, SkipDigits(name, 1) - 1)
AfterLeadingDigits(name) == From(name, SkipSpaces(name, SkipDigits(name, 1)))
NumberCounts(name, found) ==
    (found # <<>> /\ LeadingDigits(name) # "" /\ AfterLeadingDigits(name) # "") =>
        /\ found[1].quantity = ToInt(LeadingDigits(name))
        /\ found[1].name = AfterLeadingDigits(name)
CandidateName(sorted_text, i, line, price_match) ==
    IF Matched(price_match)
    THEN generic_name(text_before_price(line, price_match), i, sorted_text[i].text)
    ELSE ""
TokenNumberCounts(sorted_text, i) ==
    NumberCounts(CandidateName(sorted_text, i, sorted_text[i + 1].text,
                               price_pattern(sorted_text[i + 1].text)),
                 generic_item(sorted_text, i).items)
NumbersCount(sorted_text) ==
    \A i \in header_end_idx(sorted_text)..(footer_start_idx(sorted_text) - 1) :
        TokenNumberCounts(sorted_text, i)
LeadingNumberIsQuantity ==
    (pc = "extract_totals" /\ receipt_type # "CHATIME") => NumbersCount(sorted_by_y(text_results))

\* C18: for a receipt type without a strategy of its own the text-line
\* fallback runs exactly when the position-based strategy found no item; the
\* items of its line scan come from lines of the text at places 3 and up
\* (from 0) that have no footer keyword; the scans of the two merchants run
\* only when the line scan found nothing too, and their items are all FOOD.
ScanPlaces(lines) ==
    { k \in 1..Len(lines) : k - 1 >= 3 /\ ~ContainsAny(lower(lines[k]), footer_keywords) }
FromScanPlaces(lines, scanned) ==
    \A j \in 1..Len(scanned) :
        \E k \in ScanPlaces(lines) :
            alternative_priced(lines, k, price_pattern(lines[k])).items = << scanned[j] >>
FallbackRule(found, lines, scanned) ==
    /\ FromScanPlaces(lines, scanned)
    /\ found # <<>> => items = found
    /\ (found = <<>> /\ scanned # <<>>) => items = scanned
    /\ (found = <<>> /\ scanned = <<>>) =>
          /\ \A j \in 1..Len(items) : items[j].category = "FOOD"
          /\ receipt_type \notin {"SUSHIGO", "GOMACHI"} => items = <<>>
FallbackWhenNothingFound ==
    (pc = "extract_totals" /\ receipt_type # "CHATIME") =>
        FallbackRule(generic_strategy(sorted_by_y(text_results)).items,
                     split_lines(full_text),
                     alternative_items(split_lines(full_text), 1).items)
MerchantScanFound ==
    /\ pc = "extract_totals"
    /\ receipt_type = "SUSHIGO"
    /\ generic_strategy(sorted_by_y(text_results)).items = <<>>
    /\ alternative_items(split_lines(full_text), 1).items = <<>>
    /\ Len(items) = 1
    /\ items[1].category = "FOOD"

\* C19: the merchant name is looked for in the first 5 tokens in sorted order
\* at most: it is the text of the first of them with a spelling of the receipt
\* type's name, and the text of the first sorted token when the type is
\* UNKNOWN or none of the 5 has one ("Unknown Merchant" without tokens).
FirstNamed(sorted_text, type) ==
    First(1, Min(5, Len(sorted_text)),
          LAMBDA k : ContainsAny(sorted_text[k].text, merchant_spellings(type)))
NameOf(sorted_text, place) ==
    IF sorted_text = <<>> THEN "Unknown Merchant"
    ELSE IF place <= Min(5, Len(sorted_text)) THEN sorted_text[place].text
    ELSE sorted_text[1].text
MerchantIsTokenText ==
    pc = "extract_date_time" =>
        merchant_name = NameOf(sorted_by_y(text_results),
                               FirstNamed(sorted_by_y(text_results), receipt_type))

\* C19 as the code has it: when one of the first 5 sorted tokens has a
\* spelling of the type's name, the merchant name is "Gomachi" for GOMACHI and
\* "Chatime" for CHATIME, and the text of the first such token for the other
\* types; else the text of the first sorted token.
FixedName(type, text) ==
    IF type = "GOMACHI" THEN "Gomachi" ELSE IF type = "CHATIME" THEN "Chatime" ELSE text
NamedOrFirst(sorted_text, type, place) ==
    IF sorted_text # <<>> /\ place <= Min(5, Len(sorted_text))
    THEN FixedName(type, sorted_text[place].text)
    ELSE NameOf(sorted_text, place)
MerchantIsNameOrTokenText ==
    pc = "extract_date_time" =>
        merchant_name = NamedOrFirst(sorted_by_y(text_results), receipt_type,
                                     FirstNamed(sorted_by_y(text_results), receipt_type))
GomachiNamed ==
    /\ pc = "extract_date_time"
    /\ receipt_type = "GOMACHI"
    /\ Len(text_results) = 2
    /\ sorted_by_y(text_results)[2].text = "GOMACHI RESTO"
    /\ merchant_name = "Gomachi"

\* C20: the receipt type is that of the first signature, in the order GOMACHI,
\* CHATIME, SUSHIGO, HOKBEN, INDOMARET, WARUNG_CE, with an alias that occurs
\* in the text blob in any case; UNKNOWN exactly when no alias occurs; one
\* text has one type.
Signatures ==
    << [type |-> "GOMACHI", aliases |-> <<"gomachi", "japanese ramen", "gemachi">>],
       [type |-> "CHATIME", aliases |-> <<"chatime", "milk tea", "chatine">>],
       [type |-> "SUSHIGO", aliases |-> <<"sushigo", "one price sushi">>],
       [type |-> "HOKBEN", aliases |-> <<"hokben", "hoka ichiman">>],
       [type |-> "INDOMARET", aliases |-> <<"indomaret", "indomarco">>],
       [type |-> "WARUNG_CE", aliases |-> <<"warung ce", "goldfinch">> ] >>
Occurs(alias, text) ==
    \E i \in 1..(Len(text) - Len(alias) + 1) :
        lower(SubSeq(text, i, i + Len(alias) - 1)) = alias
Signed(k, text) ==
    \E a \in 1..Len(Signatures[k].aliases) : Occurs(Signatures[k].aliases[a], text)
TypeOf(place) == IF place <= Len(Signatures) THEN Signatures[place].type ELSE "UNKNOWN"
TypeIsFirstSignature ==
    pc = "extract_merchant_name" =>
        /\ receipt_type = TypeOf(First(1, Len(Signatures), LAMBDA k : Signed(k, full_text)))
        /\ receipt_type = "UNKNOWN" <=> \A k \in 1..Len(Signatures) : ~Signed(k, full_text)
EarlierTypeWins ==
    /\ pc = "extract_merchant_name"
    /\ Occurs("chatime", full_text)
    /\ Occurs("gomachi", full_text)
    /\ find(full_text, "Chatime") < find(full_text, "GOMACHI")
    /\ receipt_type = "GOMACHI"

\* C21: the payment method is the first one, in the order CASH, CARD, DEBIT,
\* CREDIT, QR_PAYMENT, OVO, GOPAY, DANA, BCA, MANDIRI, with a keyword that
\* occurs in the text blob in any case; UNKNOWN exactly when no keyword
\* occurs; a text with keywords of two methods gets the earlier method.
Methods ==
    << [method |-> "CASH", keywords |-> <<"cash", "tunai", "uang tunai">>],
       [method |-> "CARD", keywords |-> <<"card", "kartu", "edc">>],
       [method |-> "DEBIT", keywords |-> <<"debit">>],
       [method |-> "CREDIT", keywords |-> <<"credit", "kredit", "cc">>],
       [method |-> "QR_PAYMENT", keywords |-> <<"qr", "qris">>],
       [method |-> "OVO", keywords |-> <<"ovo">>],
       [method |-> "GOPAY", keywords |-> <<"gopay", "gojek">>],
       [method |-> "DANA", keywords |-> <<"dana">>],
       [method |-> "BCA", keywords |-> <<"bca">>],
       [method |-> "MANDIRI", keywords |-> <<"mandiri">>] >>
Paid(k, text) ==
    \E a \in 1..Len(Methods[k].keywords) : Occurs(Methods[k].keywords[a], text)
MethodOf(place) == IF place <= Len(Methods) THEN Methods[place].method ELSE "UNKNOWN"
MethodIsFirstListed ==
    pc = "prepare_result" =>
        /\ payment_method = MethodOf(First(1, Len(Methods), LAMBDA k : Paid(k, full_text)))
        /\ payment_method = "UNKNOWN" <=> \A k \in 1..Len(Methods) : ~Paid(k, full_text)
EarlierMethodWins ==
    /\ pc = "prepare_result"
    /\ full_text = "BCA Mandiri\nDebit Card"
    /\ Paid(2, full_text)
    /\ Paid(3, full_text)
    /\ Paid(9, full_text)
    /\ payment_method = "CARD"

\* C22: for every number n >= 0 of tokens and every place of a header and a
\* footer line, the position-based strategy reads sorted tokens at places
\* 0 .. n-1 only: footerStart is never above n, also when the estimated
\* headerEnd is above n or the estimated footerStart is negative, and the
\* line before place i is looked up for i >= 1 only.
PlacesWithin(sorted_text) ==
    /\ footer_start_idx(sorted_text) <= Len(sorted_text)
    /\ \A i \in header_end_idx(sorted_text)..(footer_start_idx(sorted_text) - 1) :
          i >= 1 /\ i < Len(sorted_text)
ReadsWithinTokens ==
    (pc \in {"extract_totals", "raised"} /\ receipt_type # "CHATIME") =>
        /\ ~(pc = "raised" /\ result.raised = "IndexError")
        /\ PlacesWithin(sorted_by_y(text_results))
ShortListRead ==
    /\ pc = "extract_totals"
    /\ Len(text_results) = 3
    /\ header_end_idx(sorted_by_y(text_results)) = 5
    /\ footer_start_idx(sorted_by_y(text_results)) = -2
    /\ items = <<>>

=============================================================================
